---- MODULE Spec2Model ----
(***************************************************************************)
(* MCQ extraction (MCQParser.parse over text, MCQExtractor.extractAll over *)
(* a page), cross-strategy deduplication, and the answer-to-option         *)
(* resolvers (Highlighter.findMatchingOption, AIService                    *)
(* ._matchAnswerToOption).                                                 *)
(*                                                                         *)
(* A JavaScript string is a sequence of one-character strings; the line    *)
(* feed is the character "\n".                                             *)
(***************************************************************************)
EXTENDS Integers, Sequences, FiniteSets, TLC

VARIABLES
    rOptions,   \* resolver input: the option texts (option i is options[i-1])
    rAnswer,    \* resolver input: the raw answer string
    rHigh,      \* outcome of Highlighter.findMatchingOption, or Pending
    rServ,      \* outcome of AIService._matchAnswerToOption, or Pending
    xMode,      \* "parse" (MCQParser.parse), "extract" (MCQExtractor.extractAll), "idle"
    xText,      \* parse input: the text
    xDoc,       \* extractAll input: the page, as the structures the queries find
    xPc,        \* "start", "strategies", "dedup", "done"
    xIdx,       \* index of the next strategy of the strategies array
    xMcqs,      \* the local list mcqs of parse / extractAll
    xThrew,     \* the strategies whose call threw (history)
    xResult,    \* the list returned
    xRun,       \* 1 during the first call on the input, 2 during the second
    xFirst,     \* the list the first call returned (history)
    oLine,      \* option cleaners' input: the raw option text
    oParser,    \* outcome of MCQParser.cleanOption
    oExtractor, \* outcome of MCQExtractor.cleanOptionText
    vMcq,       \* validate input: the MCQ object
    vOut,       \* what validate returned, with the MCQ as it is afterwards
    sQuestion,  \* answerMCQ input: the question text
    sOptions,   \* answerMCQ input: the option texts
    sReply,     \* the provider's reply: its text and what JSON.parse makes of it
    sPc,        \* "call", "parse", "done"
    sOut,       \* what answerMCQ returned or threw
    bBlock,     \* parseQuestionBlock input: the block text
    bOut,       \* what parseQuestionBlock returned
    lAnswer,    \* fuzzy loop input: the normalized answer
    lOptions,   \* fuzzy loop input: the normalized option texts
    lOut,       \* the distances the loop computed and the option it selected
    currentMCQs, \* content script: the MCQ list of the last detection
    isProcessing, \* content script: the flag of the solve operations
    settings,   \* content script: stealthMode and autoHighlight
    calls,      \* content script: the handler calls so far, each with its locals and position
    indicators, \* the processing indicators now on the page
    highlightedElements, \* Highlighter.highlightedElements: the options now highlighted
    detections, \* number of extractAll calls made by detectMCQs
    fRoute,     \* the OCR route of the request: "ocr", "parse" or "none"
    fFile,      \* the file field of the request
    fStored,    \* the upload is in the temp directory
    fPc,        \* position in the handling of the OCR request
    fText,      \* the text extractText returned
    fOut,       \* the response of the OCR route
    aQuestions, \* req.body.questions of the batch request
    aPc,        \* position in the batch route
    aI,         \* the loop index i of the batch route
    aResults,   \* results of the batch route
    aCalls,     \* the number of calls to the AI provider
    aOut        \* the response of the batch route

vars == <<rOptions, rAnswer, rHigh, rServ, xMode, xText, xDoc, xPc, xIdx, xMcqs, xThrew,
          xResult, xRun, xFirst, oLine, oParser, oExtractor, vMcq, vOut, sQuestion,
          sOptions, sReply, sPc, sOut, bBlock, bOut, lAnswer, lOptions, lOut, currentMCQs,
          isProcessing, settings, calls, indicators, highlightedElements, detections,
          fRoute, fFile, fStored, fPc, fText, fOut, aQuestions, aPc, aI, aResults, aCalls,
          aOut>>

rVars == <<rOptions, rAnswer, rHigh, rServ>>

xVars == <<xMode, xText, xDoc, xPc, xIdx, xMcqs, xThrew, xResult>>

tVars == <<xRun, xFirst>>

oVars == <<oLine, oParser, oExtractor>>

vVars == <<vMcq, vOut>>

sVars == <<sQuestion, sOptions, sReply, sPc, sOut>>

bVars == <<bBlock, bOut>>

lVars == <<lAnswer, lOptions, lOut>>

cVars == <<currentMCQs, isProcessing, settings, calls, indicators, highlightedElements, detections>>

fVars == <<fRoute, fFile, fStored, fPc, fText, fOut>>

aVars == <<aQuestions, aPc, aI, aResults, aCalls, aOut>>

(***************************************************************************)
(* Bounds of the model.                                                    *)
(***************************************************************************)
MaxAnsLen == 2

MaxOpts == 2

MaxBlocks == 2

MaxNodes == 2

MaxLineLen == 3

MaxTwiceBlocks == 1

MaxTwiceNodes == 1

MaxBlockLines == 4

MaxLevLen == 3

MaxRequests == 3

MaxMcqs == 2

(***************************************************************************)
(* Characters and the String.prototype methods the code calls.             *)
(***************************************************************************)
UpperChars == <<"A","B","C","D","E","F","G","H","I","J","K","L","M",
                "N","O","P","Q","R","S","T","U","V","W","X","Y","Z">>

LowerChars == <<"a","b","c","d","e","f","g","h","i","j","k","l","m",
                "n","o","p","q","r","s","t","u","v","w","x","y","z">>

DigitChars == <<"0","1","2","3","4","5","6","7","8","9">>

Range(f) == {f[i] : i \in DOMAIN f}

IsUpper(c) == c \in Range(UpperChars)

IsLower(c) == c \in Range(LowerChars)

IsLetter(c) == IsUpper(c) \/ IsLower(c)

IsDigit(c) == c \in Range(DigitChars)

\* \s of a JavaScript regular expression, and the characters trim() removes
SpaceChars == {" ", "\n", "\t"}

IsSpace(c) == c \in SpaceChars

\* the class [.\):\s] of the option and letter patterns
MarkerSepChars == {".", ")", ":"} \cup SpaceChars

IsMarkerSep(c) == c \in MarkerSepChars

ToLowerChar(c) ==
    IF IsUpper(c) THEN LowerChars[CHOOSE i \in DOMAIN UpperChars : UpperChars[i] = c] ELSE c

toLowerCase(s) == [i \in 1..Len(s) |-> ToLowerChar(s[i])]

\* number of consecutive characters of s, from position i on, that are in set S
RECURSIVE RunLen(_, _, _)
RunLen(s, i, S) ==
    IF i <= Len(s) /\ s[i] \in S THEN 1 + RunLen(s, i + 1, S) ELSE 0

RECURSIVE TrailingSpaces(_, _)
TrailingSpaces(s, i) ==
    IF i >= 1 /\ IsSpace(s[i]) THEN 1 + TrailingSpaces(s, i - 1) ELSE 0

trimStart(s) == SubSeq(s, RunLen(s, 1, SpaceChars) + 1, Len(s))

trimEnd(s) == SubSeq(s, 1, Len(s) - TrailingSpaces(s, Len(s)))

trim(s) == trimEnd(trimStart(s))

\* s.startsWith(p) at position i (1-based)
MatchesAt(s, i, p) ==
    /\ i + Len(p) - 1 <= Len(s)
    /\ \A k \in 1..Len(p) : s[i + k - 1] = p[k]

includes(s, sub) == \E i \in 1..(Len(s) - Len(sub) + 1) : MatchesAt(s, i, sub)

First(S) == CHOOSE i \in S : \A j \in S : i <= j

Max(a, b) == IF a >= b THEN a ELSE b

Min3(a, b, c) == IF a <= b /\ a <= c THEN a ELSE IF b <= c THEN b ELSE c

(***************************************************************************)
(* Highlighter.levenshteinDistance: the matrix is filled row by row; row i *)
(* belongs to b[i], column j to a[j]. A row is held as a sequence whose    *)
(* element j+1 is matrix[i][j].                                            *)
(***************************************************************************)
\* faulty variant: no substitution step (insertions and deletions only)
RECURSIVE LevCellsNoSubstitution(_, _, _, _)
LevCellsNoSubstitution(prev, bc, a, cur) ==
    IF Len(cur) > Len(a) THEN cur
    ELSE LET j == Len(cur)
         IN  LevCellsNoSubstitution(prev, bc, a,
                 Append(cur, IF bc = a[j]
                             THEN prev[j]
                             ELSE IF cur[j] <= prev[j + 1] THEN cur[j] + 1
                                  ELSE prev[j + 1] + 1))

\* cur holds matrix[i][0 .. j-1]; the next cell is matrix[i][j], j = Len(cur)
RECURSIVE LevCells(_, _, _, _)
LevCells(prev, bc, a, cur) ==
    IF Len(cur) > Len(a) THEN cur
    ELSE LET j == Len(cur)
         IN  LevCells(prev, bc, a,
                      Append(cur, IF bc = a[j]
                                  THEN prev[j]
                                  ELSE Min3(prev[j] + 1, cur[j] + 1, prev[j + 1] + 1)))

RECURSIVE LevRows(_, _, _, _)
LevRows(prev, a, b, i) ==
    IF Len(prev) = Len(a) + 1 /\ i > Len(b) THEN prev
    ELSE LevRows(LevCells(prev, b[i], a, <<i>>), a, b, i + 1)

levenshteinDistance(a, b) ==
    LevRows([j \in 1..(Len(a) + 1) |-> j - 1], a, b, 1)[Len(a) + 1]

(***************************************************************************)
(* The resolvers. An outcome is [index, tier]: index is the position       *)
(* (1-based) of the option object returned, 0 for null; tier names the     *)
(* return statement that produced it.                                      *)
(***************************************************************************)
NoMatch == [index |-> 0, tier |-> "none"]

Pending == [index |-> 0, tier |-> "pending"]

cleanText(s) == trim(toLowerCase(s))

\* the letters the pattern /^([A-D])[.\):\s]/i captures, lower-cased
LetterTierLetters == <<"a","b","c","d">>

\* answer.match(/^([A-D])[.\):\s]/i), then charCodeAt(0) - 'A'.charCodeAt(0):
\* the zero-based index of the captured letter, or -1 when the pattern fails
LetterIndex(answer) ==
    IF /\ Len(answer) >= 2
       /\ ToLowerChar(answer[1]) \in Range(LetterTierLetters)
       /\ IsMarkerSep(answer[2])
    THEN (CHOOSE i \in DOMAIN LetterTierLetters :
              LetterTierLetters[i] = ToLowerChar(answer[1])) - 1
    ELSE 0 - 1

ExactMatches(options, cleanAnswer) ==
    {i \in DOMAIN options : cleanText(options[i]) = cleanAnswer}

PartialMatches(options, cleanAnswer) ==
    {i \in DOMAIN options : \/ includes(cleanText(options[i]), cleanAnswer)
                            \/ includes(cleanAnswer, cleanText(options[i]))}

\* faulty variant: the index is not checked against options.length
LetterAcceptsUnbounded(options, answer) == LetterIndex(answer) >= 0

\* `if (index >= 0 && index < options.length)`
LetterAccepts(options, answer) ==
    LetterIndex(answer) >= 0 /\ LetterIndex(answer) < Len(options)

\* faulty variant: `distance <= bestScore`, the last option of minimum distance
BestMatchLast(options, cleanAnswer) ==
    LET least == {i \in DOMAIN options :
                     \A j \in DOMAIN options :
                         levenshteinDistance(cleanAnswer, cleanText(options[i]))
                             <= levenshteinDistance(cleanAnswer, cleanText(options[j]))}
    IN  CHOOSE i \in least : \A j \in least : i >= j

\* the loop of the fuzzy tier: the first option of minimum distance
BestMatch(options, cleanAnswer) ==
    First({i \in DOMAIN options :
              \A j \in DOMAIN options :
                  levenshteinDistance(cleanAnswer, cleanText(options[i]))
                      <= levenshteinDistance(cleanAnswer, cleanText(options[j]))})

\* bestScore < Math.max(cleanAnswer.length, bestMatch?.text.length || 0) * 0.4,
\* in integers: 5 * bestScore < 2 * max (exact for the lengths of this model)
FuzzyAccepts(options, cleanAnswer) ==
    /\ Len(options) > 0
    /\ LET best == BestMatch(options, cleanAnswer)
       IN  5 * levenshteinDistance(cleanAnswer, cleanText(options[best]))
               < 2 * Max(Len(cleanAnswer), Len(options[best]))

\* faulty variant: the partial match is tried before the exact match
findMatchingOptionPartialFirst(options, answer) ==
    LET cleanAnswer == cleanText(answer)
    IN  IF PartialMatches(options, cleanAnswer) # {}
        THEN [index |-> First(PartialMatches(options, cleanAnswer)), tier |-> "substring"]
        ELSE IF ExactMatches(options, cleanAnswer) # {}
        THEN [index |-> First(ExactMatches(options, cleanAnswer)), tier |-> "exact"]
        ELSE IF LetterAccepts(options, answer)
        THEN [index |-> LetterIndex(answer) + 1, tier |-> "letter"]
        ELSE IF FuzzyAccepts(options, cleanAnswer)
        THEN [index |-> BestMatch(options, cleanAnswer), tier |-> "fuzzy"]
        ELSE NoMatch

\* faulty variant: the option letter is tried before the partial match
findMatchingOptionLetterFirst(options, answer) ==
    LET cleanAnswer == cleanText(answer)
    IN  IF ExactMatches(options, cleanAnswer) # {}
        THEN [index |-> First(ExactMatches(options, cleanAnswer)), tier |-> "exact"]
        ELSE IF LetterAccepts(options, answer)
        THEN [index |-> LetterIndex(answer) + 1, tier |-> "letter"]
        ELSE IF PartialMatches(options, cleanAnswer) # {}
        THEN [index |-> First(PartialMatches(options, cleanAnswer)), tier |-> "substring"]
        ELSE IF FuzzyAccepts(options, cleanAnswer)
        THEN [index |-> BestMatch(options, cleanAnswer), tier |-> "fuzzy"]
        ELSE NoMatch

findMatchingOption(options, answer) ==
    LET cleanAnswer == cleanText(answer)
    IN  IF ExactMatches(options, cleanAnswer) # {}
        THEN [index |-> First(ExactMatches(options, cleanAnswer)), tier |-> "exact"]
        ELSE IF PartialMatches(options, cleanAnswer) # {}
        THEN [index |-> First(PartialMatches(options, cleanAnswer)), tier |-> "substring"]
        ELSE IF LetterAccepts(options, answer)
        THEN [index |-> LetterIndex(answer) + 1, tier |-> "letter"]
        ELSE IF FuzzyAccepts(options, cleanAnswer)
        THEN [index |-> BestMatch(options, cleanAnswer), tier |-> "fuzzy"]
        ELSE NoMatch

AnswerContains(options, cleanAnswer) ==
    {i \in DOMAIN options : includes(cleanAnswer, cleanText(options[i]))}

OptionContains(options, cleanAnswer) ==
    {i \in DOMAIN options : includes(cleanText(options[i]), cleanAnswer)}

matchAnswerToOption(answer, options) ==
    LET cleanAnswer == cleanText(answer)
    IN  IF ExactMatches(options, cleanAnswer) # {}
        THEN [index |-> First(ExactMatches(options, cleanAnswer)), tier |-> "exact"]
        ELSE IF AnswerContains(options, cleanAnswer) # {}
        THEN [index |-> First(AnswerContains(options, cleanAnswer)), tier |-> "substring"]
        ELSE IF OptionContains(options, cleanAnswer) # {}
        THEN [index |-> First(OptionContains(options, cleanAnswer)), tier |-> "substring"]
        ELSE IF LetterAccepts(options, answer)
        THEN [index |-> LetterIndex(answer) + 1, tier |-> "letter"]
        ELSE NoMatch

(***************************************************************************)
(* MCQParser: the block parser and its helpers.                            *)
(***************************************************************************)
DigitSet == Range(DigitChars)

NoNumber == 0 - 1

NoBlock == [ok |-> FALSE, question |-> <<>>, options |-> <<>>]

\* s.split(sep) for a one-character separator
RECURSIVE SplitOn(_, _, _)
SplitOn(s, sep, i) ==
    LET seps == {k \in i..Len(s) : s[k] = sep}
    IN  IF seps = {} THEN <<SubSeq(s, i, Len(s))>>
        ELSE <<SubSeq(s, i, First(seps) - 1)>> \o SplitOn(s, sep, First(seps) + 1)

RECURSIVE TrimAll(_)
TrimAll(ls) == IF ls = <<>> THEN <<>> ELSE <<trim(Head(ls))>> \o TrimAll(Tail(ls))

RECURSIVE NonEmpty(_)
NonEmpty(ls) ==
    IF ls = <<>> THEN <<>>
    ELSE IF Len(Head(ls)) > 0 THEN <<Head(ls)>> \o NonEmpty(Tail(ls))
    ELSE NonEmpty(Tail(ls))

\* block.split('\n').map(l => l.trim()).filter(l => l.length > 0)
BlockLines(block) == NonEmpty(TrimAll(SplitOn(block, "\n", 1)))

\* parseInt of a run of decimal digits
RECURSIVE parseInt(_)
parseInt(ds) ==
    IF ds = <<>> THEN 0
    ELSE 10 * parseInt(SubSeq(ds, 1, Len(ds) - 1))
         + ((CHOOSE i \in DOMAIN DigitChars : DigitChars[i] = ds[Len(ds)]) - 1)

\* /^[A-Z][.\):\s]/i
LetterMarker(line) ==
    Len(line) >= 2 /\ IsLetter(line[1]) /\ IsMarkerSep(line[2])

\* /^\d+[.\):\s]/
DigitMarker(line) ==
    LET nd == RunLen(line, 1, DigitSet)
    IN  nd >= 1 /\ nd + 1 <= Len(line) /\ IsMarkerSep(line[nd + 1])

\* /^\([A-Z]\)/i
ParenLetterMarker(line) ==
    Len(line) >= 3 /\ line[1] = "(" /\ IsLetter(line[2]) /\ line[3] = ")"

\* /^\(\d+\)/
ParenDigitMarker(line) ==
    /\ Len(line) >= 3
    /\ line[1] = "("
    /\ LET nd == RunLen(line, 2, DigitSet)
       IN  nd >= 1 /\ nd + 2 <= Len(line) /\ line[nd + 2] = ")"

\* faulty variant: only the letter patterns, the numeric ones left out
looksLikeOptionLettersOnly(line) ==
    /\ Len(line) > 0
    /\ \/ LetterMarker(line)
       \/ ParenLetterMarker(line)

looksLikeOption(line) ==
    /\ Len(line) > 0
    /\ \/ LetterMarker(line)
       \/ DigitMarker(line)
       \/ ParenLetterMarker(line)
       \/ ParenDigitMarker(line)

\* s with its first n characters removed
Drop(s, n) == SubSeq(s, n + 1, Len(s))

\* .replace(/^[A-Z][.\):\s]+/i, '')
StripLetterMarker(s) ==
    IF LetterMarker(s) THEN Drop(s, 1 + RunLen(s, 2, MarkerSepChars)) ELSE s

\* .replace(/^\d+[.\):\s]+/, '')
StripDigitMarker(s) ==
    IF DigitMarker(s)
    THEN LET nd == RunLen(s, 1, DigitSet)
         IN  Drop(s, nd + RunLen(s, nd + 1, MarkerSepChars))
    ELSE s

\* .replace(/^\([A-Z]\)\s*/i, '')
StripParenLetter(s) ==
    IF ParenLetterMarker(s) THEN Drop(s, 3 + RunLen(s, 4, SpaceChars)) ELSE s

\* .replace(/^\(\d+\)\s*/, '')
StripParenDigit(s) ==
    IF ParenDigitMarker(s)
    THEN LET nd == RunLen(s, 2, DigitSet)
         IN  Drop(s, nd + 2 + RunLen(s, nd + 3, SpaceChars))
    ELSE s

cleanOption(line) ==
    trim(StripParenDigit(StripParenLetter(StripDigitMarker(StripLetterMarker(line)))))

\* index (1-based) of the first line that looks like an option, 0 when none does
FirstOptionLine(lines) ==
    IF \E i \in DOMAIN lines : looksLikeOption(lines[i])
    THEN First({i \in DOMAIN lines : looksLikeOption(lines[i])})
    ELSE 0

RECURSIVE JoinSpace(_)
JoinSpace(ls) ==
    IF ls = <<>> THEN <<>>
    ELSE IF Len(ls) = 1 THEN Head(ls)
    ELSE Head(ls) \o <<" ">> \o JoinSpace(Tail(ls))

\* faulty variant: `if (option)` left out, empty cleaned options are pushed
RECURSIVE CollectOptionsKeepEmpty(_, _)
CollectOptionsKeepEmpty(lines, i) ==
    IF i > Len(lines) THEN <<>>
    ELSE IF looksLikeOption(lines[i])
    THEN <<cleanOption(lines[i])>> \o CollectOptionsKeepEmpty(lines, i + 1)
    ELSE CollectOptionsKeepEmpty(lines, i + 1)

\* the second loop of parseQuestionBlock: cleaned option lines, empty ones skipped
RECURSIVE CollectOptions(_, _)
CollectOptions(lines, i) ==
    IF i > Len(lines) THEN <<>>
    ELSE IF looksLikeOption(lines[i]) /\ Len(cleanOption(lines[i])) > 0
    THEN <<cleanOption(lines[i])>> \o CollectOptions(lines, i + 1)
    ELSE CollectOptions(lines, i + 1)

MinOptions == 2

MaxOptions == 6

parseQuestionBlock(block) ==
    LET lines == BlockLines(block)
        fo == FirstOptionLine(lines)
        \* when no line looks like an option the loop runs to the end and
        \* optionsStartIndex keeps its initial 0
        optionsStartIndex == IF fo = 0 THEN 0 ELSE fo - 1
        questionText == IF fo = 0 THEN JoinSpace(lines)
                        ELSE JoinSpace(SubSeq(lines, 1, fo - 1))
        options == CollectOptions(lines, optionsStartIndex + 1)
    IN  IF Len(lines) < 3 THEN NoBlock
        ELSE IF \/ Len(questionText) = 0
                \/ optionsStartIndex = 0
                \/ optionsStartIndex >= Len(lines) - 1
        THEN NoBlock
        ELSE IF Len(options) < MinOptions \/ Len(options) > MaxOptions THEN NoBlock
        ELSE [ok |-> TRUE, question |-> trim(questionText), options |-> options]

(***************************************************************************)
(* The three text strategies. A regular-expression match is computed as    *)
(* the backtracking matcher finds it: the leftmost start position, greedy  *)
(* runs given back only when the rest cannot match, the lazy block (.+?)   *)
(* as short as the lookahead allows. The flags are g and s (and i for the  *)
(* Q pattern): ^ and $ match only at the two ends of the text.             *)
(***************************************************************************)
AllNewlines(t, q) == \A k \in q..Len(t) : t[k] = "\n"

\* (?=\n\d+[.\)]|\n*$) at position q
NumberedLookahead(t, q) ==
    \/ /\ q <= Len(t)
       /\ t[q] = "\n"
       /\ LET nd == RunLen(t, q + 1, DigitSet)
          IN  nd >= 1 /\ q + nd + 1 <= Len(t) /\ t[q + nd + 1] \in {".", ")"}
    \/ AllNewlines(t, q)

\* (?=\nQ\d+|\n*$) at position q, case-insensitive
QLookahead(t, q) ==
    \/ /\ q + 2 <= Len(t)
       /\ t[q] = "\n"
       /\ ToLowerChar(t[q + 1]) = "q"
       /\ IsDigit(t[q + 2])
    \/ AllNewlines(t, q)

NoRegexMatch == [ok |-> FALSE, num |-> <<>>, from |-> 0, to |-> 0]

\* /(?:^|\n)(\d+)[.\)]\s*(.+?)(?=\n\d+[.\)]|\n*$)/gs tried at start position s
NumberedMatchAt(t, s) ==
    LET dstart == IF s = 1 /\ IsDigit(t[1]) THEN 1
                  ELSE IF t[s] = "\n" THEN s + 1 ELSE 0
        nd == IF dstart = 0 THEN 0 ELSE RunLen(t, dstart, DigitSet)
        p == dstart + nd                       \* position of [.\)]
        ws == RunLen(t, p + 1, SpaceChars)     \* \s*, greedy
        b == IF p + 1 + ws <= Len(t) THEN p + 1 + ws
             ELSE IF ws >= 1 THEN Len(t)       \* \s* gives its last character back
             ELSE 0
    IN  IF nd >= 1 /\ p <= Len(t) /\ t[p] \in {".", ")"} /\ b > 0
        THEN [ok |-> TRUE, num |-> SubSeq(t, dstart, p - 1), from |-> b,
              to |-> First({e \in b..Len(t) : NumberedLookahead(t, e + 1)})]
        ELSE NoRegexMatch

\* /(?:^|\n)Q(\d+)[:\s]*(.+?)(?=\nQ\d+|\n*$)/gis tried at start position s
QMatchAt(t, s) ==
    LET qpos == IF s = 1 /\ ToLowerChar(t[1]) = "q" THEN 1
                ELSE IF t[s] = "\n" THEN s + 1 ELSE 0
        isQ == qpos > 0 /\ qpos <= Len(t) /\ ToLowerChar(t[qpos]) = "q"
        dstart == qpos + 1
        nd == IF isQ THEN RunLen(t, dstart, DigitSet) ELSE 0
        seps == RunLen(t, dstart + nd, {":"} \cup SpaceChars)   \* [:\s]*, greedy
        \* digits kept by (\d+) and start of the block, after backtracking
        used == IF dstart + nd + seps <= Len(t) \/ seps >= 1 THEN nd ELSE nd - 1
        b == IF dstart + nd + seps <= Len(t) THEN dstart + nd + seps
             ELSE IF seps >= 1 THEN Len(t)      \* [:\s]* gives its last character back
             ELSE IF nd >= 2 THEN Len(t)        \* \d+ gives its last digit back
             ELSE 0
    IN  IF isQ /\ nd >= 1 /\ b > 0
        THEN [ok |-> TRUE, num |-> SubSeq(t, dstart, dstart + used - 1), from |-> b,
              to |-> First({e \in b..Len(t) : QLookahead(t, e + 1)})]
        ELSE NoRegexMatch

\* [...text.matchAll(pattern)] from position `from` on: the leftmost match, then
\* the matches after its end
RECURSIVE NumberedMatches(_, _)
NumberedMatches(t, from) ==
    LET starts == {s \in from..Len(t) : NumberedMatchAt(t, s).ok}
    IN  IF starts = {} THEN <<>>
        ELSE LET m == NumberedMatchAt(t, First(starts))
             IN  <<m>> \o NumberedMatches(t, m.to + 1)

RECURSIVE QMatches(_, _)
QMatches(t, from) ==
    LET starts == {s \in from..Len(t) : QMatchAt(t, s).ok}
    IN  IF starts = {} THEN <<>>
        ELSE LET m == QMatchAt(t, First(starts))
             IN  <<m>> \o QMatches(t, m.to + 1)

\* the loop over the matches shared by parseNumberedQuestions and
\* parseQPrefixedQuestions: parse each block, set mcq.number, push
RECURSIVE BlocksToMcqs(_, _)
BlocksToMcqs(t, ms) ==
    IF ms = <<>> THEN <<>>
    ELSE LET m == Head(ms)
             mcq == parseQuestionBlock(SubSeq(t, m.from, m.to))
         IN  (IF mcq.ok
              THEN <<[question |-> mcq.question, options |-> mcq.options,
                      number |-> parseInt(m.num)]>>
              ELSE <<>>) \o BlocksToMcqs(t, Tail(ms))

parseNumberedQuestions(text) == BlocksToMcqs(text, NumberedMatches(text, 1))

parseQPrefixedQuestions(text) == BlocksToMcqs(text, QMatches(text, 1))

\* text.split(/\n{2,}/)
RECURSIVE SplitParagraphs(_, _)
SplitParagraphs(t, i) ==
    LET gaps == {k \in i..Len(t) : RunLen(t, k, {"\n"}) >= 2}
    IN  IF gaps = {} THEN <<SubSeq(t, i, Len(t))>>
        ELSE <<SubSeq(t, i, First(gaps) - 1)>>
             \o SplitParagraphs(t, First(gaps) + RunLen(t, First(gaps), {"\n"}))

QuestionWords == <<<<"w","h","a","t">>, <<"w","h","i","c","h">>, <<"w","h","o">>, <<"w","h","e","r","e">>, <<"w","h","e","n">>, <<"w","h","y">>, <<"h","o","w">>>>

InstructionWords == <<<<"s","e","l","e","c","t">>, <<"c","h","o","o","s","e">>, <<"i","d","e","n","t","i","f","y">>, <<"f","i","n","d">>, <<"d","e","t","e","r","m","i","n","e">>,
                      <<"c","a","l","c","u","l","a","t","e">>>>

VerbWords == <<<<"i","s">>, <<"a","r","e">>, <<"w","a","s">>, <<"w","e","r","e">>, <<"w","i","l","l">>, <<"w","o","u","l","d">>, <<"s","h","o","u","l","d">>,
               <<"c","a","n">>, <<"c","o","u","l","d">>>>

StartsWithAny(s, words) == \E i \in DOMAIN words : MatchesAt(s, 1, words[i])

\* MCQParser.looksLikeQuestion
parserLooksLikeQuestion(text) ==
    /\ Len(text) >= 10
    /\ \/ includes(text, <<"?">>)
       \/ StartsWithAny(toLowerCase(text), QuestionWords)
       \/ StartsWithAny(toLowerCase(text), InstructionWords)
       \/ \E i \in DOMAIN VerbWords : \E c \in SpaceChars :
              includes(toLowerCase(text), Append(VerbWords[i], c))

RECURSIVE ParagraphsToMcqs(_)
ParagraphsToMcqs(blocks) ==
    IF blocks = <<>> THEN <<>>
    ELSE LET mcq == IF parserLooksLikeQuestion(Head(blocks))
                    THEN parseQuestionBlock(Head(blocks)) ELSE NoBlock
         IN  (IF mcq.ok
              THEN <<[question |-> mcq.question, options |-> mcq.options,
                      number |-> NoNumber]>>
              ELSE <<>>) \o ParagraphsToMcqs(Tail(blocks))

parseBlockQuestions(text) == ParagraphsToMcqs(SplitParagraphs(text, 1))

\* faulty variant: the key keeps the letter case
dedupKeyCaseSensitive(question) == trim(question)

\* deduplicate (MCQParser and MCQExtractor alike): the filter over a Set of keys
dedupKey(question) == trim(toLowerCase(question))

\* faulty variant: of the candidates of one key the last is kept
RECURSIVE DedupFromKeepLast(_, _)
DedupFromKeepLast(mcqs, seen) ==
    IF mcqs = <<>> THEN <<>>
    ELSE IF \E i \in 2..Len(mcqs) :
                dedupKey(mcqs[i].question) = dedupKey(Head(mcqs).question)
         THEN DedupFromKeepLast(Tail(mcqs), seen)
         ELSE <<Head(mcqs)>> \o DedupFromKeepLast(Tail(mcqs), seen)

\* mcqs.filter(mcq => { if (seen.has(key)) return false; seen.add(key); return true })
RECURSIVE DedupFrom(_, _)
DedupFrom(mcqs, seen) ==
    IF mcqs = <<>> THEN <<>>
    ELSE LET key == dedupKey(Head(mcqs).question)
         IN  IF key \in seen THEN DedupFrom(Tail(mcqs), seen)
             ELSE <<Head(mcqs)>> \o DedupFrom(Tail(mcqs), seen \cup {key})

\* faulty variant: the Set of keys outlives the call that filled it
deduplicateSeenKept(mcqs) ==
    DedupFrom(mcqs, {dedupKey(xFirst.result[i].question) : i \in DOMAIN xFirst.result})

\* `const seen = new Set()` is made anew by every call
deduplicate(mcqs) == DedupFrom(mcqs, {})

(***************************************************************************)
(* MCQExtractor. The page is what the strategies' queries find in it: a    *)
(* hostname, whether an element with a class containing "canvas" exists,   *)
(* and the structures in document order. A structure is a record           *)
(*   kind    "radio" (a group of radio inputs of one name), "list" (an     *)
(*           ol/ul), "div" (an element matching a question selector),      *)
(*           "table", "quizlet", "canvas" (a platform question element)    *)
(*   legend  radio: text of the legend/heading of the enclosing container  *)
(*           (a sequence of 0 or 1 texts)                                  *)
(*   sibs    radio, list: texts of the previous siblings, nearest first    *)
(*   heading radio, list: text of the parent's first heading/p/div (0 or 1)*)
(*   q       div, table, platform: text of the question element (0 or 1;   *)
(*           for a table the first row)                                    *)
(*   opts    texts of the option elements (radio: label || value; list:    *)
(*           the li items; table: the rows after the first)                *)
(*   sels    div: the indices of the questionSelectors the element matches *)
(***************************************************************************)
\* clone.textContent.trim().replace(/\s+/g, ' ')
RECURSIVE CollapseSpaces(_, _)
CollapseSpaces(s, i) ==
    IF i > Len(s) THEN <<>>
    ELSE IF IsSpace(s[i])
    THEN <<" ">> \o CollapseSpaces(s, i + RunLen(s, i, SpaceChars))
    ELSE <<s[i]>> \o CollapseSpaces(s, i + 1)

extractTextContent(raw) == CollapseSpaces(trim(raw), 1)

ExtractorInstructionWords == <<<<"s","e","l","e","c","t">>, <<"c","h","o","o","s","e">>, <<"i","d","e","n","t","i","f","y">>, <<"f","i","n","d">>,
                               <<"d","e","t","e","r","m","i","n","e">>>>

\* MCQExtractor.looksLikeQuestion
extractorLooksLikeQuestion(text) ==
    /\ Len(text) >= 10
    /\ LET t == trim(text)
           low == toLowerCase(t)
       IN  \/ (Len(t) > 0 /\ t[Len(t)] = "?")
           \/ StartsWithAny(low, QuestionWords)
           \/ StartsWithAny(low, ExtractorInstructionWords)
           \/ (MatchesAt(low, 1, <<"q","u","e","s","t","i","o","n"," ">>) /\ Len(low) >= 10 /\ IsDigit(low[10]))
           \/ (Len(low) >= 2 /\ low[1] = "q" /\ IsDigit(low[2]))
           \/ \E i \in 1..(Len(t) - 1) :
                  IsDigit(t[i]) /\ t[i + 1] \in ({".", ")"} \cup SpaceChars)

NoQuestion == [found |-> FALSE, text |-> <<>>]

MaxSiblingAttempts == 5

findQuestionBeforeElement(node) ==
    LET hits == {i \in DOMAIN node.sibs :
                    /\ i <= MaxSiblingAttempts
                    /\ extractorLooksLikeQuestion(extractTextContent(node.sibs[i]))}
    IN  IF hits # {}
        THEN [found |-> TRUE, text |-> extractTextContent(node.sibs[First(hits)])]
        ELSE IF /\ node.heading # <<>>
                /\ extractorLooksLikeQuestion(extractTextContent(node.heading[1]))
        THEN [found |-> TRUE, text |-> extractTextContent(node.heading[1])]
        ELSE NoQuestion

findQuestionForRadioGroup(node) ==
    IF node.legend # <<>>
    THEN [found |-> TRUE, text |-> extractTextContent(node.legend[1])]
    ELSE findQuestionBeforeElement(node)

cleanOptionText(text) == trim(StripDigitMarker(StripLetterMarker(text)))

\* items.map(item => cleanOptionText(item.textContent))
CleanOptionTexts(opts) == [i \in 1..Len(opts) |-> cleanOptionText(opts[i])]

\* elements.map(elem => extractTextContent(elem))
TextContents(opts) == [i \in 1..Len(opts) |-> extractTextContent(opts[i])]

RECURSIVE Flatten(_)
Flatten(ss) == IF ss = <<>> THEN <<>> ELSE Head(ss) \o Flatten(Tail(ss))

Mcq(question, options, type) == [question |-> question, options |-> options, type |-> type]

\* the candidate (0 or 1 of them) each strategy pushes for one structure
RadioCandidate(node) ==
    LET question == findQuestionForRadioGroup(node)
    IN  IF question.found /\ Len(node.opts) > 1
        THEN <<Mcq(question.text, node.opts, "radio")>>
        ELSE <<>>

ListCandidate(node) ==
    LET question == findQuestionBeforeElement(node)
    IN  IF /\ Len(node.opts) >= MinOptions
           /\ Len(node.opts) <= MaxOptions
           /\ question.found
           /\ \E i \in DOMAIN node.opts :
                  LetterMarker(trim(node.opts[i])) \/ DigitMarker(trim(node.opts[i]))
        THEN <<Mcq(question.text, CleanOptionTexts(node.opts), "list")>>
        ELSE <<>>

DivCandidate(node) ==
    IF Len(node.opts) >= MinOptions /\ Len(node.opts) <= MaxOptions
    THEN <<Mcq(extractTextContent(node.q[1]), TextContents(node.opts), "div")>>
    ELSE <<>>

TableCandidate(node) ==
    IF /\ 1 + Len(node.opts) >= 3
       /\ Len(node.opts) >= MinOptions
       /\ Len(node.opts) <= MaxOptions
    THEN <<Mcq(extractTextContent(node.q[1]), TextContents(node.opts),
               "table")>>
    ELSE <<>>

\* extractFromQuizlet / extractFromCanvas / extractFromGoogleForms share this body
PlatformCandidate(node, type) ==
    IF node.q # <<>> /\ Len(node.q[1]) > 0 /\ Len(node.opts) > 1
    THEN <<Mcq(node.q[1], node.opts, type)>>
    ELSE <<>>

\* querySelectorAll: the structures of one kind, in document order
RECURSIVE SelectNodes(_, _)
SelectNodes(nodes, kind) ==
    IF nodes = <<>> THEN <<>>
    ELSE (IF Head(nodes).kind = kind THEN <<Head(nodes)>> ELSE <<>>)
             \o SelectNodes(Tail(nodes), kind)

extractFromRadioButtons(doc) ==
    LET groups == SelectNodes(doc.nodes, "radio")
    IN  Flatten([i \in 1..Len(groups) |-> RadioCandidate(groups[i])])

extractFromLists(doc) ==
    LET lists == SelectNodes(doc.nodes, "list")
    IN  Flatten([i \in 1..Len(lists) |-> ListCandidate(lists[i])])

NumQuestionSelectors == 5

\* questionSelectors.forEach(selector => querySelectorAll(selector).forEach(...))
RECURSIVE DivSelectorLoop(_, _)
DivSelectorLoop(doc, k) ==
    IF k > NumQuestionSelectors THEN <<>>
    ELSE LET divs == SelectNodes(doc.nodes, "div")
         IN  Flatten([i \in 1..Len(divs) |->
                         IF k \in divs[i].sels THEN DivCandidate(divs[i]) ELSE <<>>])
                 \o DivSelectorLoop(doc, k + 1)

extractFromDivStructure(doc) == DivSelectorLoop(doc, 1)

extractFromTableFormat(doc) ==
    LET tables == SelectNodes(doc.nodes, "table")
    IN  Flatten([i \in 1..Len(tables) |-> TableCandidate(tables[i])])

extractFromGoogleForms(doc) ==
    LET questions == SelectNodes(doc.nodes, "gforms")
    IN  Flatten([i \in 1..Len(questions) |-> PlatformCandidate(questions[i], "google-forms")])

extractFromQuizlet(doc) ==
    LET questions == SelectNodes(doc.nodes, "quizlet")
    IN  Flatten([i \in 1..Len(questions) |-> PlatformCandidate(questions[i], "quizlet")])

extractFromCanvas(doc) ==
    LET questions == SelectNodes(doc.nodes, "canvas")
    IN  Flatten([i \in 1..Len(questions) |-> PlatformCandidate(questions[i], "canvas")])

extractFromCommonPlatforms(doc) ==
    IF includes(doc.host, <<"g","o","o","g","l","e",".","c","o","m","/","f","o","r","m","s">>)
    THEN extractFromGoogleForms(doc)
    ELSE IF includes(doc.host, <<"q","u","i","z","l","e","t",".","c","o","m">>)
    THEN extractFromQuizlet(doc)
    ELSE IF includes(doc.host, <<"i","n","s","t","r","u","c","t","u","r","e",".","c","o","m">>) \/ doc.canvasClass
    THEN extractFromCanvas(doc)
    ELSE <<>>

(***************************************************************************)
(* The strategy loops of MCQParser.parse and MCQExtractor.extractAll.      *)
(***************************************************************************)
NumParseStrategies == 3

NumExtractStrategies == 5

\* strategies[idx - 1](text) of parse
ParseStrategy(idx, text) ==
    CASE idx = 1 -> parseNumberedQuestions(text)
      [] idx = 2 -> parseQPrefixedQuestions(text)
      [] idx = 3 -> parseBlockQuestions(text)

\* strategies[idx - 1]() of extractAll
ExtractStrategy(idx, doc) ==
    CASE idx = 1 -> extractFromRadioButtons(doc)
      [] idx = 2 -> extractFromLists(doc)
      [] idx = 3 -> extractFromDivStructure(doc)
      [] idx = 4 -> extractFromTableFormat(doc)
      [] idx = 5 -> extractFromCommonPlatforms(doc)

\* faulty variant: the catch block discards what the earlier strategies found
TryStrategyClearsOnThrow(mcqs, out, threw) == IF threw THEN <<>> ELSE mcqs \o out

\* one iteration of the for loop: try { mcqs.push(...strategy()) } catch { warn }
\* `threw` says the call threw; then nothing is pushed and the loop goes on
TryStrategy(mcqs, out, threw) == IF threw THEN mcqs ELSE mcqs \o out

\* whether the call of strategy idx throws: either, in a first call; in a
\* second call on the unchanged input, what it did in the first
ThrowChoices(idx) == IF xRun = 1 THEN BOOLEAN ELSE {idx \in xFirst.threw}

\* `if (!text || text.trim().length === 0) return []`
IsBlankText(text) == Len(text) = 0 \/ Len(trim(text)) = 0

(***************************************************************************)
(* Inputs.                                                                 *)
(***************************************************************************)
SeqsUpTo(S, n) == UNION {[1..k -> S] : k \in 0..n}

BlockPool ==
    { <<"1","."," ","W","h","a","t"," ","i","s"," ","2","+","2","?","\n","A","."," ","2","\n","B","."," ","3","\n","C","."," ","4","\n","D","."," ","5">>,
      <<"Q","1",":"," ","W","h","o"," ","i","s"," ","i","t","?","\n","A","."," ","x","\n","B","."," ","y">>,
      <<"W","h","o"," ","i","s"," ","i","t","?","\n","(","a",")"," ","x","\n","(","2",")"," ","y">>,
      <<"2",")"," ","W","H","O"," ","I","S"," ","I","T","?"," ","\n","A",")"," ","x","\n","B",":"," ","y","\n","C","."," ","z">>,
      <<"W","h","i","c","h"," ","i","s"," ","i","t","\n","1","."," ","x">>,
      <<"3","."," ","W","h","y"," ","s","o","?","\n","A","."," ","a","\n","B","."," ","b","\n","C","."," ","c","\n","D","."," ","d","\n","E","."," ","e","\n","F","."," ","f","\n","G","."," ","g">>,
      <<"n","o","t","e","s">> }

BlockSeparators == { <<"\n">>, <<"\n","\n">> }

\* the texts made of n blocks
RECURSIVE TextsOf(_)
TextsOf(n) ==
    IF n = 1 THEN BlockPool
    ELSE {t \o sep \o b : t \in TextsOf(n - 1), sep \in BlockSeparators, b \in BlockPool}

Texts == {<<>>, <<" ","\n">>} \cup UNION {TextsOf(n) : n \in 1..MaxBlocks}

Node(kind, legend, sibs, heading, q, opts, sels) ==
    [kind |-> kind, legend |-> legend, sibs |-> sibs, heading |-> heading,
     q |-> q, opts |-> opts, sels |-> sels]

SevenOptions == << <<"a">>, <<"b">>, <<"c">>, <<"d">>, <<"e">>, <<"f">>, <<"g">> >>

NodePool ==
    { Node("radio", << <<"W","h","o"," ","i","s"," ","i","t","?">> >>, <<>>, <<>>, <<>>, << <<"x">>, <<"y">> >>, {}),
      Node("radio", << <<"W","H","O"," ","I","S"," ","I","T","?">> >>, <<>>, <<>>, <<>>, SevenOptions, {}),
      Node("radio", <<>>, << <<"P","i","c","k"," ","o","n","e">>, <<"W","h","a","t"," ","i","s"," ","i","t"," ","n","o","w","?">> >>, <<>>, <<>>,
           << <<"x">> >>, {}),
      Node("list", <<>>, << <<"n","o","t","e">> >>, << <<" ","W","h","o"," ","i","s","\n"," ","i","t","?"," ">> >>, <<>>,
           << <<"A","."," ","x">>, <<" ","B",")"," ","y">> >>, {}),
      Node("div", <<>>, <<>>, <<>>, << <<"W","h","y"," "," ","s","o","?"," ">> >>, << <<"x">>, <<" ","y">> >>, {1, 4}),
      Node("div", <<>>, <<>>, <<>>, << <<>> >>, << <<"x">>, <<"y">> >>, {5}),
      Node("table", <<>>, <<>>, <<>>, << <<"W","h","y"," ","s","o","?">> >>, << <<"p">>, <<"q">> >>, {}),
      Node("quizlet", <<>>, <<>>, <<>>, << <<" ","W","h","o"," ","i","s"," ","i","t","?"," ">> >>, << <<" ","x"," ">>, <<"y">> >>, {}),
      Node("quizlet", <<>>, <<>>, <<>>, <<>>, << <<"x">>, <<"y">> >>, {}),
      Node("canvas", <<>>, <<>>, <<>>, << <<"N","a","m","e"," ","i","t">> >>, SevenOptions, {}),
      Node("canvas", <<>>, <<>>, <<>>, << <<"W","h","o"," "," ","i","s"," ","i","t","?">> >>, << <<"x">>, <<"y">> >>, {}) }

PagePool ==
    { [host |-> <<"e","x","a","m","p","l","e",".","c","o","m">>, canvasClass |-> FALSE],
      [host |-> <<"q","u","i","z","l","e","t",".","c","o","m">>, canvasClass |-> FALSE],
      [host |-> <<"x",".","i","n","s","t","r","u","c","t","u","r","e",".","c","o","m">>, canvasClass |-> FALSE],
      [host |-> <<"e","x","a","m","p","l","e",".","c","o","m">>, canvasClass |-> TRUE] }

Docs == {[host |-> p.host, canvasClass |-> p.canvasClass, nodes |-> ns] :
            p \in PagePool, ns \in SeqsUpTo(NodePool, MaxNodes)}

NoDoc == [host |-> <<>>, canvasClass |-> FALSE, nodes |-> <<>>]

(***************************************************************************)
(* Extraction: state machine of one call of parse or extractAll.           *)
(***************************************************************************)
\* values of the variables of the operations a behaviour does not exercise
NotCleaned == [done |-> FALSE, text |-> <<>>]

NoMcq == [hasQuestion |-> FALSE, question |-> <<>>, hasOptions |-> FALSE, options |-> <<>>]

NotValidated == [done |-> FALSE, isValid |-> FALSE, issues |-> <<>>]

NoConfidence == [kind |-> "other", m |-> 0, s |-> 1, str |-> <<>>]

NoReply == [text |-> <<>>, json |-> FALSE, answerKind |-> "absent", answer |-> <<>>,
            confidence |-> NoConfidence]

NotAnswered == [status |-> "pending", answer |-> <<>>, nan |-> FALSE, confidence |-> 0]

NotParsed == [done |-> FALSE, mcq |-> NoBlock]

InitBlockIdle ==
    /\ bBlock = <<>>
    /\ bOut = NotParsed

NoFuzzy == [done |-> FALSE, distance |-> <<>>, best |-> 0]

InitFuzzyIdle ==
    /\ lAnswer = <<>>
    /\ lOptions = <<>>
    /\ lOut = NoFuzzy

DefaultSettings == [stealthMode |-> TRUE, autoHighlight |-> TRUE]

InitContentIdle ==
    /\ currentMCQs = <<>>
    /\ isProcessing = FALSE
    /\ settings = DefaultSettings
    /\ calls = <<>>
    /\ indicators = {}
    /\ highlightedElements = {}
    /\ detections = 0

\* no file field in the request
NoUpload == [present |-> FALSE, mimetype |-> "", large |-> FALSE]

\* no response sent yet
NoOcrResponse == [status |-> 0, text |-> <<>>, mcqs |-> <<>>]

InitOcrIdle ==
    /\ fRoute = "none"
    /\ fFile = NoUpload
    /\ fStored = FALSE
    /\ fPc = "done"
    /\ fText = <<>>
    /\ fOut = NoOcrResponse

\* req.body.questions when the body has no such field
NoQuestions == [isArray |-> FALSE, entries |-> <<>>]

\* no response sent yet
NoBatchResponse ==
    [status |-> 0, total |-> 0, successful |-> 0, failed |-> 0, results |-> <<>>]

InitBatchIdle ==
    /\ aQuestions = NoQuestions
    /\ aPc = "done"
    /\ aI = 0
    /\ aResults = <<>>
    /\ aCalls = 0
    /\ aOut = NoBatchResponse

NoFirstCall == [result |-> <<>>, threw |-> {}]

InitTwiceIdle ==
    /\ xRun = 1
    /\ xFirst = NoFirstCall

InitCleanIdle ==
    /\ oLine = <<>>
    /\ oParser = NotCleaned
    /\ oExtractor = NotCleaned

InitValidateIdle ==
    /\ vMcq = NoMcq
    /\ vOut = NotValidated

InitServiceIdle ==
    /\ sQuestion = <<>>
    /\ sOptions = <<>>
    /\ sReply = NoReply
    /\ sPc = "done"
    /\ sOut = NotAnswered

InitResolverIdle ==
    /\ rOptions = <<>>
    /\ rAnswer = <<>>
    /\ rHigh = Pending
    /\ rServ = Pending

Init ==
    /\ InitResolverIdle
    /\ InitTwiceIdle
    /\ InitBatchIdle
    /\ InitOcrIdle
    /\ InitContentIdle
    /\ InitFuzzyIdle
    /\ InitBlockIdle
    /\ InitCleanIdle
    /\ InitValidateIdle
    /\ InitServiceIdle
    /\ \/ xMode = "parse" /\ xText \in Texts /\ xDoc = NoDoc /\ xPc = "start"
       \/ xMode = "extract" /\ xText = <<>> /\ xDoc \in Docs /\ xPc = "strategies"
    /\ xIdx = 1
    /\ xMcqs = <<>>
    /\ xThrew = {}
    /\ xResult = <<>>

\* parse, lines 454-456: the guard on the text
ParseStart ==
    /\ xMode = "parse"
    /\ xPc = "start"
    /\ IF IsBlankText(xText)
       THEN xPc' = "done"
       ELSE xPc' = "strategies"
    /\ UNCHANGED <<xMode, xText, xDoc, xIdx, xMcqs, xThrew, xResult>>
    /\ UNCHANGED <<rVars, tVars, oVars, vVars, sVars, bVars, lVars, cVars, fVars, aVars>>

\* parse, lines 467-476: one iteration of the loop over the strategies
ParseTryStrategy ==
    /\ xMode = "parse"
    /\ xPc = "strategies"
    /\ xIdx <= NumParseStrategies
    /\ \E threw \in ThrowChoices(xIdx) :
          /\ xMcqs' = TryStrategy(xMcqs, ParseStrategy(xIdx, xText), threw)
          /\ xThrew' = IF threw THEN xThrew \cup {xIdx} ELSE xThrew
    /\ xIdx' = xIdx + 1
    /\ UNCHANGED <<xMode, xText, xDoc, xPc, xResult>>
    /\ UNCHANGED <<rVars, tVars, oVars, vVars, sVars, bVars, lVars, cVars, fVars, aVars>>

\* parse, line 479
ParseReturn ==
    /\ xMode = "parse"
    /\ xPc = "strategies"
    /\ xIdx > NumParseStrategies
    /\ xResult' = deduplicate(xMcqs)
    /\ xPc' = "done"
    /\ UNCHANGED <<xMode, xText, xDoc, xIdx, xMcqs, xThrew>>
    /\ UNCHANGED <<rVars, tVars, oVars, vVars, sVars, bVars, lVars, cVars, fVars, aVars>>

\* extractAll, lines 25-34
ExtractTryStrategy ==
    /\ xMode = "extract"
    /\ xPc = "strategies"
    /\ xIdx <= NumExtractStrategies
    /\ \E threw \in ThrowChoices(xIdx) :
          /\ xMcqs' = TryStrategy(xMcqs, ExtractStrategy(xIdx, xDoc), threw)
          /\ xThrew' = IF threw THEN xThrew \cup {xIdx} ELSE xThrew
    /\ xIdx' = xIdx + 1
    /\ UNCHANGED <<xMode, xText, xDoc, xPc, xResult>>
    /\ UNCHANGED <<rVars, tVars, oVars, vVars, sVars, bVars, lVars, cVars, fVars, aVars>>

\* extractAll, line 37
ExtractReturn ==
    /\ xMode = "extract"
    /\ xPc = "strategies"
    /\ xIdx > NumExtractStrategies
    /\ xResult' = deduplicate(xMcqs)
    /\ xPc' = "done"
    /\ UNCHANGED <<xMode, xText, xDoc, xIdx, xMcqs, xThrew>>
    /\ UNCHANGED <<rVars, tVars, oVars, vVars, sVars, bVars, lVars, cVars, fVars, aVars>>

Next ==
    \/ ParseStart
    \/ ParseTryStrategy
    \/ ParseReturn
    \/ ExtractTryStrategy
    \/ ExtractReturn

Spec == Init /\ [][Next]_vars

(***************************************************************************)
(* The resolvers: state machine of one resolution of one answer.           *)
(***************************************************************************)
AnswerAlphabet == {"a", "B", ")", " "}

RECURSIVE StringsOfLen(_)
StringsOfLen(n) ==
    IF n = 0 THEN {<<>>}
    ELSE {Append(s, c) : s \in StringsOfLen(n - 1), c \in AnswerAlphabet}

Answers == UNION {StringsOfLen(n) : n \in 0..MaxAnsLen}

OptionPool == { <<"a">>, <<"a","B",")">>, <<" ","B","a"," "," ">>, <<"B">>, <<")"," ","a">> }

OptionLists == SeqsUpTo(OptionPool, MaxOpts) \ {<<>>}

Capitals == << <<"P","a","r","i","s">>, <<"B","e","r","l","i","n">>, <<"R","o","m","e">> >>

FiveCities == << <<"P","a","r","i","s">>, <<"B","e","r","l","i","n">>, <<"R","o","m","e">>, <<"O","s","l","o">>, <<"B","e","r","n">> >>

SixCities == << <<"P","a","r","i","s">>, <<"B","e","r","l","i","n">>, <<"R","o","m","e">>, <<"O","s","l","o">>, <<"B","e","r","n">>, <<"K","y","i","v">> >>

NamedCases ==
    { <<Capitals, <<"B",")"," ","B","e","r","l","i","n">>>>,
      <<Capitals, <<"D",")"," ","n","o","n","e">>>>,
      <<Capitals, <<"b","e","r","l","i","n"," ">>>>,
      <<Capitals, <<" ">>>>,
      <<Capitals, <<>>>>,
      << <<>>, <<"P","a","r","i","s">> >>,
      << <<>>, <<"A",")"," ","x">> >>,
      << <<>>, <<>> >>,
      <<FiveCities, <<"E",")"," ","n","o","n","e">>>>,
      <<SixCities, <<"F","."," ","n","o","n","e">>>>,
      <<SixCities, <<"c",":"," ","n","o","n","e">>>>,
      << << <<"P","h","o","t","o","s","y","n","t","h","e","s","i","s">> >>, <<"F","o","t","o","s","y","n","t","h","e","s","i","s">> >>,
      << << <<"P","h","o","t","o","s","y","n","t","h","e","s","i","s">> >>, <<"C","a","t","s">> >>,
      << << <<"\n"," "," ","M","a","r","s","\n"," ">>, <<"V","e","n","u","s">> >>, <<"M","o","o","n">> >> }

ResolverCases == NamedCases \cup (OptionLists \X Answers)

InitExtractionIdle ==
    /\ xMode = "idle"
    /\ xText = <<>>
    /\ xDoc = NoDoc
    /\ xPc = "done"
    /\ xIdx = 1
    /\ xMcqs = <<>>
    /\ xThrew = {}
    /\ xResult = <<>>

InitResolve ==
    /\ InitExtractionIdle
    /\ InitTwiceIdle
    /\ InitBatchIdle
    /\ InitOcrIdle
    /\ InitContentIdle
    /\ InitFuzzyIdle
    /\ InitBlockIdle
    /\ InitCleanIdle
    /\ InitValidateIdle
    /\ InitServiceIdle
    /\ \E c \in ResolverCases : rOptions = c[1] /\ rAnswer = c[2]
    /\ rHigh = Pending
    /\ rServ = Pending

\* Highlighter.highlight, line 159: the call of findMatchingOption
HighlighterFind ==
    /\ rHigh = Pending
    /\ rHigh' = findMatchingOption(rOptions, rAnswer)
    /\ UNCHANGED <<rOptions, rAnswer, rServ>>
    /\ UNCHANGED <<xVars, tVars, oVars, vVars, sVars, bVars, lVars, cVars, fVars, aVars>>

\* AIService._parseAIResponse, line 169: the call of _matchAnswerToOption
ServiceMatch ==
    /\ rServ = Pending
    /\ rServ' = matchAnswerToOption(rAnswer, rOptions)
    /\ UNCHANGED <<rOptions, rAnswer, rHigh>>
    /\ UNCHANGED <<xVars, tVars, oVars, vVars, sVars, bVars, lVars, cVars, fVars, aVars>>

NextResolve ==
    \/ HighlighterFind
    \/ ServiceMatch

SpecResolve == InitResolve /\ [][NextResolve]_vars

(***************************************************************************)
(* Properties.                                                             *)
(***************************************************************************)
ExtractionDone == xMode \in {"parse", "extract"} /\ xPc = "done"

\* C1: no two MCQs of a returned list have the same lower-cased, trimmed
\* question text.
C1_DedupInvariant ==
    ExtractionDone =>
        \A i, j \in DOMAIN xResult :
            i # j => trim(toLowerCase(xResult[i].question))
                        # trim(toLowerCase(xResult[j].question))

\* C1 witness: a call returned after deduplicate dropped a candidate whose
\* question differs from the kept one in letter case only.
C1_Witness ==
    /\ ExtractionDone
    /\ Len(xResult) >= 1
    /\ \E i, j \in DOMAIN xMcqs :
          /\ i < j
          /\ xMcqs[i].question # xMcqs[j].question
          /\ toLowerCase(xMcqs[i].question) = toLowerCase(xMcqs[j].question)
          /\ Len(xResult) < Len(xMcqs)

\* C2: every MCQ of a returned list has between 2 and 6 options.
C2_OptionBound ==
    ExtractionDone =>
        \A i \in DOMAIN xResult :
            Len(xResult[i].options) >= 2 /\ Len(xResult[i].options) <= 6

ResolverDone == rHigh # Pending /\ rServ # Pending

AnswerEqualsAnOption ==
    \E i \in DOMAIN rOptions :
        trim(toLowerCase(rOptions[i])) = trim(toLowerCase(rAnswer))

ReturnsEqualOptionByExact(r) ==
    /\ r.tier = "exact"
    /\ r.index \in DOMAIN rOptions
    /\ trim(toLowerCase(rOptions[r.index])) = trim(toLowerCase(rAnswer))

\* C3: an answer equal to some option's text, letter case and surrounding
\* whitespace aside, is resolved by the exact tier to an option with that text,
\* in both resolvers.
C3_ExactTierFirst ==
    (ResolverDone /\ AnswerEqualsAnOption) =>
        ReturnsEqualOptionByExact(rHigh) /\ ReturnsEqualOptionByExact(rServ)

\* C3 witness: the answer equals the second option while the first option
\* contains it, so a later tier would have picked another option.
C3_Witness ==
    /\ ResolverDone
    /\ Len(rOptions) = 2
    /\ trim(toLowerCase(rOptions[2])) = trim(toLowerCase(rAnswer))
    /\ trim(toLowerCase(rOptions[1])) # trim(toLowerCase(rAnswer))
    /\ includes(trim(toLowerCase(rOptions[1])), trim(toLowerCase(rAnswer)))
    /\ rHigh.index = 2

IsBerlinCase == rOptions = Capitals /\ rAnswer = <<"B",")"," ","B","e","r","l","i","n">>

\* C4 as amended: for options Paris, Berlin, Rome and answer "B) Berlin" the
\* resolver returns Berlin, and the tier that produces it is the substring tier.
C4_BerlinBySubstring ==
    (IsBerlinCase /\ rHigh # Pending) => rHigh = [index |-> 2, tier |-> "substring"]

\* C4 witness: that answer has been resolved to Berlin.
C4_Witness == IsBerlinCase /\ rHigh # Pending /\ rHigh.index = 2

\* C4 as stated: ... returns Berlin and the tier that produces it is the letter
\* tier.
C4_BerlinByLetter ==
    (IsBerlinCase /\ rHigh # Pending) => rHigh = [index |-> 2, tier |-> "letter"]

\* the answer begins with a letter A-Z followed by '.', ')', ':' or whitespace
BeginsWithLetterMarker(answer) ==
    Len(answer) >= 2 /\ IsUpper(answer[1]) /\ IsMarkerSep(answer[2])

\* 'A' -> 0, ..., 'Z' -> 25 (and 'a' -> 0, ..., 'z' -> 25)
AlphabetIndex(c) == (CHOOSE i \in DOMAIN LowerChars : LowerChars[i] = ToLowerChar(c)) - 1

NoExactOrSubstring ==
    \A i \in DOMAIN rOptions :
        /\ ~includes(trim(toLowerCase(rOptions[i])), trim(toLowerCase(rAnswer)))
        /\ ~includes(trim(toLowerCase(rAnswer)), trim(toLowerCase(rOptions[i])))

LetterOrdinalOutcome(r) ==
    IF AlphabetIndex(rAnswer[1]) < Len(rOptions)
    THEN r = [index |-> AlphabetIndex(rAnswer[1]) + 1, tier |-> "letter"]
    ELSE r.tier # "letter"

\* C5: when neither the exact nor the substring tier matches and the answer
\* begins with a letter A-Z and a marker character, both resolvers return the
\* option at the letter's index whenever that index is within the option list
\* (E and F included), and do not accept the letter tier otherwise.
C5_LetterOrdinal ==
    (ResolverDone /\ NoExactOrSubstring /\ BeginsWithLetterMarker(rAnswer)) =>
        LetterOrdinalOutcome(rHigh) /\ LetterOrdinalOutcome(rServ)

\* no exact match, no substring match, and no letter (of either case) with a
\* marker whose index is within the option list
FirstThreeTiersFail ==
    /\ NoExactOrSubstring
    /\ ~(/\ Len(rAnswer) >= 2
         /\ IsLetter(rAnswer[1])
         /\ IsMarkerSep(rAnswer[2])
         /\ AlphabetIndex(rAnswer[1]) < Len(rOptions))

NormalizedDistance(i) ==
    levenshteinDistance(trim(toLowerCase(rAnswer)), trim(toLowerCase(rOptions[i])))

\* the first option at minimum edit distance from the normalized answer
ClosestOption ==
    First({i \in DOMAIN rOptions :
              \A j \in DOMAIN rOptions : NormalizedDistance(i) <= NormalizedDistance(j)})

\* C6: when the exact, substring and letter tiers fail, the option at minimum
\* edit distance is accepted if and only if
\* minDistance < 0.4 * max(len(normalized answer), len(normalized best option));
\* otherwise the outcome is no match.
C6_FuzzyThreshold ==
    (rHigh # Pending /\ FirstThreeTiersFail /\ Len(rOptions) > 0) =>
        IF 5 * NormalizedDistance(ClosestOption)
              < 2 * Max(Len(trim(toLowerCase(rAnswer))),
                        Len(trim(toLowerCase(rOptions[ClosestOption]))))
        THEN rHigh = [index |-> ClosestOption, tier |-> "fuzzy"]
        ELSE rHigh = NoMatch

Photosynthesis == << <<"P","h","o","t","o","s","y","n","t","h","e","s","i","s">> >>

IsFotoCase == rOptions = Photosynthesis /\ rAnswer = <<"F","o","t","o","s","y","n","t","h","e","s","i","s">>

IsCatsCase == rOptions = Photosynthesis /\ rAnswer = <<"C","a","t","s">>

\* C7 as amended: "Fotosynthesis" is at edit distance 2 from "Photosynthesis"
\* (2 < 0.4 * 14) and is accepted by the fuzzy tier; "Cats" is at distance 12
\* and is reported as no match.
C7_FuzzyBoundary ==
    /\ (IsFotoCase /\ rHigh # Pending) =>
           /\ rHigh = [index |-> 1, tier |-> "fuzzy"]
           /\ NormalizedDistance(1) = 2
    /\ (IsCatsCase /\ rHigh # Pending) =>
           /\ rHigh = NoMatch
           /\ NormalizedDistance(1) = 12

\* C7 witness: the answer "Fotosynthesis" has been resolved.
C7_Witness == IsFotoCase /\ rHigh # Pending /\ rHigh.index = 1

\* C7 as stated: "Fotosynthesis" is at edit distance 1 from the option and is
\* accepted by the fuzzy tier; "Cats" is reported as no match.
C7_FuzzyBoundaryDistanceOne ==
    /\ (IsFotoCase /\ rHigh # Pending) =>
           /\ rHigh = [index |-> 1, tier |-> "fuzzy"]
           /\ NormalizedDistance(1) = 1
    /\ (IsCatsCase /\ rHigh # Pending) => rHigh = NoMatch

TwoPlusTwoText == <<"1","."," ","W","h","a","t"," ","i","s"," ","2","+","2","?","\n","A","."," ","2","\n","B","."," ","3","\n","C","."," ","4","\n","D","."," ","5">>

TwoPlusTwoMcq ==
    [question |-> <<"W","h","a","t"," ","i","s"," ","2","+","2","?">>,
     options |-> << <<"2">>, <<"3">>, <<"4">>, <<"5">> >>,
     number |-> 1]

ParsedWithoutThrow(text) ==
    xMode = "parse" /\ xText = text /\ xPc = "done" /\ xThrew = {}

\* C8: parsing "1. What is 2+2?\nA. 2\nB. 3\nC. 4\nD. 5" yields exactly one MCQ,
\* question "What is 2+2?", options 2, 3, 4, 5 in that order, number 1; the
\* label-prefixed and paragraph-gap strategies add no candidate.
C8_TwoPlusTwo ==
    ParsedWithoutThrow(TwoPlusTwoText) =>
        xResult = <<TwoPlusTwoMcq>> /\ xMcqs = <<TwoPlusTwoMcq>>

\* C8 witness: that text has been parsed and a result returned.
C8_Witness == ParsedWithoutThrow(TwoPlusTwoText) /\ Len(xResult) = 1

QPrefixedText == <<"Q","1",":"," ","W","h","o"," ","i","s"," ","i","t","?","\n","A","."," ","x","\n","B","."," ","y">>

\* C9: a text holding the single block "Q1: Who is it?" with two option lines is
\* reported as one MCQ.
C9_SingleBlockOnce ==
    ParsedWithoutThrow(QPrefixedText) => Len(xResult) = 1

\* the candidates of the strategies 1..k that did not throw, in order
RECURSIVE CandidatesOfNonThrowing(_)
CandidatesOfNonThrowing(k) ==
    IF k = 0 THEN <<>>
    ELSE CandidatesOfNonThrowing(k - 1)
         \o (IF k \in xThrew THEN <<>>
             ELSE IF xMode = "parse" THEN ParseStrategy(k, xText)
             ELSE ExtractStrategy(k, xDoc))

NumStrategies == IF xMode = "parse" THEN NumParseStrategies ELSE NumExtractStrategies

\* C10: whichever strategies throw, the call returns; the list holds exactly the
\* candidates of the strategies that did not throw, in the fixed order (those
\* before and those after a throwing one), and all strategies were run.
C10_FailureIsolation ==
    (xMode \in {"parse", "extract"} /\ xPc \in {"strategies", "done"}
        /\ ~(xMode = "parse" /\ IsBlankText(xText))) =>
        /\ xMcqs = CandidatesOfNonThrowing(xIdx - 1)
        /\ xPc = "done" =>
              /\ xIdx = NumStrategies + 1
              /\ xResult = deduplicate(CandidatesOfNonThrowing(NumStrategies))

\* C10 witness: extractAll returned although the third strategy threw; the
\* result holds a candidate of an earlier and one of a later strategy.
C10_Witness ==
    /\ xMode = "extract"
    /\ xPc = "done"
    /\ xThrew = {3}
    /\ \E i, j \in DOMAIN xResult :
          xResult[i].type = "radio" /\ xResult[j].type = "table"

ResolverTiers == {"exact", "substring", "letter", "fuzzy"}

\* the outcome is one of the options supplied, or the no-match value
SuppliedOrNoMatch(outcome, options) ==
    \/ outcome = NoMatch
    \/ outcome.index \in DOMAIN options /\ outcome.tier \in ResolverTiers

\* C11: for any answer string and any non-empty option list each resolver
\* returns: the outcome is one of the options supplied (an index into the list,
\* never a value from outside it) or the explicit no-match value.
C11_ResolverTotal ==
    /\ (rHigh # Pending /\ rOptions # <<>>) => SuppliedOrNoMatch(rHigh, rOptions)
    /\ (rServ # Pending /\ rOptions # <<>>) => SuppliedOrNoMatch(rServ, rOptions)

\* C11 witness: "D) none" against three options: the letter names a fourth
\* option, no tier accepts, and both resolvers have returned no match.
C11_Witness ==
    /\ rOptions = Capitals
    /\ rAnswer = <<"D",")"," ","n","o","n","e">>
    /\ rHigh = NoMatch
    /\ rServ = NoMatch

\* C12: a resolver called with an empty option list fails with an error; it
\* does not return the no-match value.
C12_EmptyOptionsFailLoudly ==
    /\ (rHigh # Pending /\ rOptions = <<>>) => rHigh # NoMatch
    /\ (rServ # Pending /\ rOptions = <<>>) => rServ # NoMatch

\* C13: no MCQ of a returned list has an empty question text.
C13_NoEmptyQuestion ==
    ExtractionDone => \A i \in DOMAIN xResult : xResult[i].question # <<>>

\* the positions of the candidates that are the first of their key
FirstOfKey(mcqs) ==
    {i \in DOMAIN mcqs :
        \A j \in 1..(i - 1) : dedupKey(mcqs[j].question) # dedupKey(mcqs[i].question)}

\* the k-th smallest element of a set of positions
NthPosition(K, k) == CHOOSE i \in K : Cardinality({j \in K : j <= i}) = k

\* C14: the returned list is the candidate list restricted to the candidates
\* that are the first of their key, in the order of the candidate list: a
\* subsequence, first occurrence kept, later ones dropped whatever their options.
C14_FirstSeenSubsequence ==
    ExtractionDone =>
        LET K == FirstOfKey(xMcqs)
        IN  /\ Len(xResult) = Cardinality(K)
            /\ \A k \in DOMAIN xResult : xResult[k] = xMcqs[NthPosition(K, k)]

\* C14 witness: two candidates of one key, the later one with more options;
\* the call returned the earlier one and not the later one.
C14_Witness ==
    /\ ExtractionDone
    /\ \E i, j \in DOMAIN xMcqs :
          /\ i < j
          /\ dedupKey(xMcqs[i].question) = dedupKey(xMcqs[j].question)
          /\ Len(xMcqs[j].options) > Len(xMcqs[i].options)
          /\ \E k \in DOMAIN xResult : xResult[k] = xMcqs[i]
          /\ \A k \in DOMAIN xResult : xResult[k] # xMcqs[j]

\* a question text with letter case and whitespace (leading, trailing, length of
\* internal runs) taken out
WithoutCaseAndSpacing(question) == CollapseSpaces(trim(toLowerCase(question)), 1)

\* C15: candidates whose questions differ only in letter case or whitespace
\* collapse: no two MCQs of a returned list have questions that are equal up to
\* letter case and whitespace.
C15_CaseWhitespaceCollapse ==
    ExtractionDone =>
        \A i, j \in DOMAIN xResult :
            i # j => WithoutCaseAndSpacing(xResult[i].question)
                        # WithoutCaseAndSpacing(xResult[j].question)

(***************************************************************************)
(* The option cleaners: state machine of one option text handed to         *)
(* MCQParser.cleanOption and to MCQExtractor.cleanOptionText.              *)
(***************************************************************************)
LineAlphabet == {"A", "(", ")", "1", ".", " ", "x"}

RECURSIVE LinesOfLen(_)
LinesOfLen(n) ==
    IF n = 0 THEN {<<>>}
    ELSE {Append(s, c) : s \in LinesOfLen(n - 1), c \in LineAlphabet}

NamedLines ==
    { <<"A","."," ","3",".","1","4">>, <<"A","."," ","1",")"," ","x">>, <<"(","B",")"," ","2","."," ","y">>, <<"(","B",")"," ","B","e","r","l","i","n">>, <<"3",")"," ","M","a","d","r","i","d">>,
      <<"b",":"," ","R","o","m","e">>, <<"(","1","2",")"," ","O","s","l","o">>, <<"B","e","r","l","i","n">>, <<" ","B","e","r","n"," ">>, <<"(","c",")","(","2",")"," ","z">> }

Lines == NamedLines \cup UNION {LinesOfLen(n) : n \in 0..MaxLineLen}

InitClean ==
    /\ InitResolverIdle
    /\ InitExtractionIdle
    /\ InitTwiceIdle
    /\ InitBatchIdle
    /\ InitOcrIdle
    /\ InitContentIdle
    /\ InitFuzzyIdle
    /\ InitBlockIdle
    /\ InitValidateIdle
    /\ InitServiceIdle
    /\ oLine \in Lines
    /\ oParser = NotCleaned
    /\ oExtractor = NotCleaned

\* MCQParser.parseQuestionBlock, line 595: the call of cleanOption
ParserCleanOption ==
    /\ ~oParser.done
    /\ oParser' = [done |-> TRUE, text |-> cleanOption(oLine)]
    /\ UNCHANGED <<oLine, oExtractor>>
    /\ UNCHANGED <<rVars, xVars, tVars, vVars, sVars, bVars, lVars, cVars, fVars, aVars>>

\* MCQExtractor.extractFromLists, line 109: the call of cleanOptionText
ExtractorCleanOptionText ==
    /\ ~oExtractor.done
    /\ oExtractor' = [done |-> TRUE, text |-> cleanOptionText(oLine)]
    /\ UNCHANGED <<oLine, oParser>>
    /\ UNCHANGED <<rVars, xVars, tVars, vVars, sVars, bVars, lVars, cVars, fVars, aVars>>

NextClean ==
    \/ ParserCleanOption
    \/ ExtractorCleanOptionText

SpecClean == InitClean /\ [][NextClean]_vars

\* the text with the first of the parser's four marker shapes that matches
\* removed, and nothing else
WithoutFirstMarkerOfFour(line) ==
    IF LetterMarker(line) THEN StripLetterMarker(line)
    ELSE IF DigitMarker(line) THEN StripDigitMarker(line)
    ELSE IF ParenLetterMarker(line) THEN StripParenLetter(line)
    ELSE StripParenDigit(line)

\* the same for the extractor's two marker shapes
WithoutFirstMarkerOfTwo(line) ==
    IF LetterMarker(line) THEN StripLetterMarker(line) ELSE StripDigitMarker(line)

\* C16: the cleaners remove at most one leading marker: what follows the first
\* marker is returned intact (trimmed), even when it begins with something
\* marker-shaped, so "A. 3.14" gives "3.14", "A. 1) x" gives "1) x" and
\* "(B) 2. y" gives "2. y".
C16_AtMostOneMarker ==
    /\ oParser.done => oParser.text = trim(WithoutFirstMarkerOfFour(oLine))
    /\ oExtractor.done => oExtractor.text = trim(WithoutFirstMarkerOfTwo(oLine))
    /\ (oParser.done /\ oLine = <<"A","."," ","3",".","1","4">>) => oParser.text = <<"3",".","1","4">>
    /\ (oParser.done /\ oLine = <<"A","."," ","1",")"," ","x">>) => oParser.text = <<"1",")"," ","x">>
    /\ (oParser.done /\ oLine = <<"(","B",")"," ","2","."," ","y">>) => oParser.text = <<"2","."," ","y">>

\* the four marker shapes: letter + separator, digits + separator, '(letter)',
\* '(digits)'; a separator is '.', ')', ':' or white space, as in the patterns
BeginsWithMarker(line) ==
    \/ LetterMarker(line)
    \/ DigitMarker(line)
    \/ ParenLetterMarker(line)
    \/ ParenDigitMarker(line)

\* C17: both cleaners remove each of the four marker shapes, so "(B) Berlin"
\* gives "Berlin" and "3) Madrid" gives "Madrid" in either; text that begins
\* with no marker is returned as it is (trimmed).
C17_FourShapesBothCleaners ==
    /\ (oParser.done /\ oLine = <<"(","B",")"," ","B","e","r","l","i","n">>) => oParser.text = <<"B","e","r","l","i","n">>
    /\ (oExtractor.done /\ oLine = <<"(","B",")"," ","B","e","r","l","i","n">>) => oExtractor.text = <<"B","e","r","l","i","n">>
    /\ (oParser.done /\ oLine = <<"3",")"," ","M","a","d","r","i","d">>) => oParser.text = <<"M","a","d","r","i","d">>
    /\ (oExtractor.done /\ oLine = <<"3",")"," ","M","a","d","r","i","d">>) => oExtractor.text = <<"M","a","d","r","i","d">>
    /\ (oParser.done /\ oLine = <<"(","1","2",")"," ","O","s","l","o">>) => oParser.text = <<"O","s","l","o">>
    /\ (oExtractor.done /\ oLine = <<"(","1","2",")"," ","O","s","l","o">>) => oExtractor.text = <<"O","s","l","o">>
    /\ (oParser.done /\ oLine = <<"b",":"," ","R","o","m","e">>) => oParser.text = <<"R","o","m","e">>
    /\ (oExtractor.done /\ oLine = <<"b",":"," ","R","o","m","e">>) => oExtractor.text = <<"R","o","m","e">>
    /\ (oParser.done /\ ~BeginsWithMarker(oLine)) => oParser.text = trim(oLine)
    /\ (oExtractor.done /\ ~BeginsWithMarker(oLine)) => oExtractor.text = trim(oLine)

(***************************************************************************)
(* MCQParser.validate: state machine of one MCQ object handed to it. The   *)
(* object is [hasQuestion, question, hasOptions, options]; a has-flag is   *)
(* FALSE when the property is undefined.                                   *)
(***************************************************************************)
MinQuestionLength == 10

QuestionIssue == "Question too short or missing"

TooFewIssue == "Not enough options (need at least 2)"

TooManyIssue == "Too many options (maximum 6)"

ShortOptionIssue == "Some options are too short"

\* `if (cond) issues.push(issue)`
PushIf(cond, issue) == IF cond THEN <<issue>> ELSE <<>>

validate(mcq) ==
    LET issues ==
            PushIf(~mcq.hasQuestion \/ Len(mcq.question) = 0
                       \/ Len(mcq.question) < MinQuestionLength, QuestionIssue)
            \o PushIf(~mcq.hasOptions \/ Len(mcq.options) < MinOptions, TooFewIssue)
            \o PushIf(mcq.hasOptions /\ Len(mcq.options) > MaxOptions, TooManyIssue)
            \o PushIf(mcq.hasOptions
                          /\ \E i \in DOMAIN mcq.options : Len(mcq.options[i]) < 1,
                      ShortOptionIssue)
    IN  [isValid |-> Len(issues) = 0, issues |-> issues]

ValidateQuestions == { <<>>, <<"W","h","o"," ","i","s"," ","i","t">>, <<"W","h","o"," ","i","s"," ","i","t","?">>, <<"W","h","a","t"," ","i","s"," ","2","+","2","?">> }

ValidateOptionPool == { <<"x">>, <<>>, <<" ">> }

SixOptions == SubSeq(SevenOptions, 1, 6)

ValidateOptionLists == SeqsUpTo(ValidateOptionPool, MaxOpts) \cup {SixOptions, SevenOptions}

ValidateMcqs ==
    {[hasQuestion |-> TRUE, question |-> q, hasOptions |-> TRUE, options |-> os] :
        q \in ValidateQuestions, os \in ValidateOptionLists}
    \cup {[hasQuestion |-> FALSE, question |-> <<>>, hasOptions |-> TRUE, options |-> os] :
            os \in ValidateOptionLists}
    \cup {[hasQuestion |-> TRUE, question |-> q, hasOptions |-> FALSE, options |-> <<>>] :
            q \in ValidateQuestions}

InitValidate ==
    /\ InitResolverIdle
    /\ InitExtractionIdle
    /\ InitTwiceIdle
    /\ InitBatchIdle
    /\ InitOcrIdle
    /\ InitContentIdle
    /\ InitFuzzyIdle
    /\ InitBlockIdle
    /\ InitCleanIdle
    /\ InitServiceIdle
    /\ vMcq \in ValidateMcqs
    /\ vOut = NotValidated

\* POST /api/ocr/parse, line 115: the call of validate
Validate ==
    /\ ~vOut.done
    /\ LET v == validate(vMcq)
       IN  vOut' = [done |-> TRUE, isValid |-> v.isValid, issues |-> v.issues]
    /\ UNCHANGED vMcq
    /\ UNCHANGED <<rVars, xVars, tVars, oVars, sVars, bVars, lVars, cVars, fVars, aVars>>

NextValidate == Validate

SpecValidate == InitValidate /\ [][NextValidate]_vars

\* an option is of zero length once normalized (trimmed, whitespace collapsed)
EmptyWhenNormalized(option) == Len(CollapseSpaces(trim(option), 1)) = 0

\* C18: validate reports invalid exactly when the question text is shorter
\* than 10 characters, the option count is outside [2,6], or some option has
\* zero length after normalization; isValid holds iff issues is empty; seven
\* options are flagged as too many.
C18_ValidateExactly ==
    vOut.done =>
        /\ ~vOut.isValid <=>
              \/ ~vMcq.hasQuestion
              \/ Len(vMcq.question) < MinQuestionLength
              \/ ~vMcq.hasOptions
              \/ Len(vMcq.options) < MinOptions
              \/ Len(vMcq.options) > MaxOptions
              \/ \E i \in DOMAIN vMcq.options : EmptyWhenNormalized(vMcq.options[i])
        /\ vOut.isValid <=> (vOut.issues = <<>>)
        /\ (vMcq.hasOptions /\ Len(vMcq.options) = 7) =>
              \E k \in DOMAIN vOut.issues : vOut.issues[k] = TooManyIssue

(***************************************************************************)
(* AIService: answerMCQ, _parseAIResponse, _fallbackParse. A number is     *)
(* [nan, m, s]: NaN, or the value m / s with s a power of ten. The         *)
(* provider's reply is its text together with what JSON.parse makes of it: *)
(* json (an object was parsed), answerKind ("string", "number" for a       *)
(* truthy non-string, "absent" for a falsy value), the answer string, and  *)
(* confidence as [kind, m, s, str] with kind "number", "string", "other".  *)
(***************************************************************************)
NaN == [nan |-> TRUE, m |-> 0, s |-> 1]

Num(m, s) == [nan |-> FALSE, m |-> m, s |-> s]

RECURSIVE PowerOfTen(_)
PowerOfTen(n) == IF n = 0 THEN 1 ELSE 10 * PowerOfTen(n - 1)

\* parseFloat of a string: leading white space, a sign, digits, a fraction;
\* NaN when there is no digit (the strings of this model have no exponent)
parseFloat(str) ==
    LET t == trimStart(str)
        signLen == IF Len(t) >= 1 /\ t[1] \in {"+", "-"} THEN 1 ELSE 0
        ni == RunLen(t, signLen + 1, DigitSet)
        hasDot == signLen + ni + 1 <= Len(t) /\ t[signLen + ni + 1] = "."
        nf == IF hasDot THEN RunLen(t, signLen + ni + 2, DigitSet) ELSE 0
        digits == SubSeq(t, signLen + 1, signLen + ni)
                      \o SubSeq(t, signLen + ni + 2, signLen + ni + 1 + nf)
    IN  IF ni + nf = 0 THEN NaN
        ELSE Num(IF signLen = 1 /\ t[1] = "-" THEN 0 - parseInt(digits)
                 ELSE parseInt(digits),
                 PowerOfTen(nf))

DefaultConfidence == 70

\* lines 152-159: parsed.confidence made a number
confidenceNumber(c) ==
    IF c.kind = "number" THEN Num(c.m, c.s)
    ELSE IF c.kind = "string" THEN parseFloat(c.str)
    ELSE Num(DefaultConfidence, 1)

MaxConfidence == 100

\* Math.max(0, Math.min(100, v)); both give NaN for NaN
clampConfidence(v) ==
    IF v.nan THEN v
    ELSE IF v.m > MaxConfidence * v.s THEN Num(MaxConfidence, 1)
    ELSE IF v.m < 0 THEN Num(0, 1)
    ELSE v

\* Math.round: floor(v + 0.5), NaN for NaN
mathRound(v) == IF v.nan THEN v ELSE Num((2 * v.m + v.s) \div (2 * v.s), 1)

WordChars == Range(UpperChars) \cup Range(LowerChars) \cup Range(DigitChars) \cup {"_"}

\* text.match(/\b([A-D])[.\):\s]/i): zero-based index of the letter of the
\* leftmost match, -1 when there is none
fallbackLetterIndex(text) ==
    LET at == {i \in 1..(Len(text) - 1) :
                  /\ ToLowerChar(text[i]) \in Range(LetterTierLetters)
                  /\ (i = 1 \/ text[i - 1] \notin WordChars)
                  /\ IsMarkerSep(text[i + 1])}
    IN  IF at = {} THEN 0 - 1
        ELSE (CHOOSE k \in DOMAIN LetterTierLetters :
                  LetterTierLetters[k] = ToLowerChar(text[First(at)])) - 1

LetterConfidence == 50

TextConfidence == 40

LastResortConfidence == 20

Answered(answer, v) ==
    [status |-> "ok", answer |-> answer, nan |-> v.nan, confidence |-> v.m]

\* AIService._fallbackParse (options is not empty: answerMCQ has checked it)
fallbackParse(text, options) ==
    LET index == fallbackLetterIndex(text)
        named == {i \in DOMAIN options :
                     includes(toLowerCase(text), toLowerCase(options[i]))}
    IN  IF index >= 0 /\ index < Len(options)
        THEN Answered(options[index + 1], Num(LetterConfidence, 1))
        ELSE IF named # {}
        THEN Answered(options[First(named)], Num(TextConfidence, 1))
        ELSE Answered(options[1], Num(LastResortConfidence, 1))

\* AIService._parseAIResponse: the try block, and the catch block that hands
\* the text to _fallbackParse when JSON.parse throws, the answer is missing, or
\* _matchAnswerToOption throws on an answer that is no string
parseAIResponse(reply, options) ==
    IF ~reply.json \/ reply.answerKind # "string"
    THEN fallbackParse(reply.text, options)
    ELSE LET matched == matchAnswerToOption(reply.answer, options)
             answer == IF matched.index # 0 /\ options[matched.index] # <<>>
                       THEN options[matched.index]
                       ELSE reply.answer
         IN  Answered(answer,
                      mathRound(clampConfidence(confidenceNumber(reply.confidence))))

Threw == [status |-> "threw", answer |-> <<>>, nan |-> FALSE, confidence |-> 0]

ConfidenceNumber(m, s) == [kind |-> "number", m |-> m, s |-> s, str |-> <<>>]

ConfidenceString(str) == [kind |-> "string", m |-> 0, s |-> 1, str |-> str]

\* a reply that JSON.parse turns into an object with a string answer
JsonReply(text, answer, confidence) ==
    [text |-> text, json |-> TRUE, answerKind |-> "string", answer |-> answer,
     confidence |-> confidence]

\* a reply whose answer is missing or no string, or that is no JSON at all
OtherReply(text, json, answerKind) ==
    [text |-> text, json |-> json, answerKind |-> answerKind, answer |-> <<>>,
     confidence |-> NoConfidence]

Replies ==
    { JsonReply(<<"{","\"","a","n","s","w","e","r","\"",":","\"","P","a","r","i","s","\"",",","\"","c","o","n","f","i","d","e","n","c","e","\"",":","8","5","}">>, <<"P","a","r","i","s">>, ConfidenceNumber(85, 1)),
      JsonReply(<<"{","\"","a","n","s","w","e","r","\"",":","\"","B",")"," ","B","e","r","l","i","n","\"",",","\"","c","o","n","f","i","d","e","n","c","e","\"",":","1","5","0","}">>, <<"B",")"," ","B","e","r","l","i","n">>, ConfidenceNumber(150, 1)),
      JsonReply(<<"{","\"","a","n","s","w","e","r","\"",":","\"","r","o","m","e","\"",",","\"","c","o","n","f","i","d","e","n","c","e","\"",":","-","5","}">>, <<"r","o","m","e">>, ConfidenceNumber(0 - 5, 1)),
      JsonReply(<<"{","\"","a","n","s","w","e","r","\"",":","\"","L","i","m","a","\"",",","\"","c","o","n","f","i","d","e","n","c","e","\"",":","9","9",".","5","}">>, <<"L","i","m","a">>, ConfidenceNumber(995, 10)),
      JsonReply(<<"{","\"","a","n","s","w","e","r","\"",":","\"","P","a","r","i","s","\"",",","\"","c","o","n","f","i","d","e","n","c","e","\"",":","0",".","4","9","}">>, <<"P","a","r","i","s">>, ConfidenceNumber(49, 100)),
      JsonReply(<<"{","\"","a","n","s","w","e","r","\"",":","\"","P","a","r","i","s","\"",",","\"","c","o","n","f","i","d","e","n","c","e","\"",":","\"","9","0",".","5","\"","}">>, <<"P","a","r","i","s">>, ConfidenceString(<<"9","0",".","5">>)),
      JsonReply(<<"{","\"","a","n","s","w","e","r","\"",":","\"","P","a","r","i","s","\"",",","\"","c","o","n","f","i","d","e","n","c","e","\"",":","\""," ","1","2","0","%","\"","}">>, <<"P","a","r","i","s">>, ConfidenceString(<<" ","1","2","0","%">>)),
      JsonReply(<<"{","\"","a","n","s","w","e","r","\"",":","\"","P","a","r","i","s","\"",",","\"","c","o","n","f","i","d","e","n","c","e","\"",":","\"","-","3","\"","}">>, <<"P","a","r","i","s">>, ConfidenceString(<<"-","3">>)),
      JsonReply(<<"{","\"","a","n","s","w","e","r","\"",":","\"","P","a","r","i","s","\"",",","\"","c","o","n","f","i","d","e","n","c","e","\"",":","\"","h","i","g","h","\"","}">>, <<"P","a","r","i","s">>, ConfidenceString(<<"h","i","g","h">>)),
      JsonReply(<<"{","\"","a","n","s","w","e","r","\"",":","\"","P","a","r","i","s","\"",",","\"","c","o","n","f","i","d","e","n","c","e","\"",":","\"","\"","}">>, <<"P","a","r","i","s">>, ConfidenceString(<<>>)),
      JsonReply(<<"{","\"","a","n","s","w","e","r","\"",":","\"","P","a","r","i","s","\"","}">>, <<"P","a","r","i","s">>, NoConfidence),
      OtherReply(<<"{","\"","c","o","n","f","i","d","e","n","c","e","\"",":","8","0","}">>, TRUE, "absent"),
      OtherReply(<<"{","\"","a","n","s","w","e","r","\"",":","2",",","\"","c","o","n","f","i","d","e","n","c","e","\"",":","8","0","}">>, TRUE, "number"),
      OtherReply(<<"I"," ","t","h","i","n","k"," ","B",")"," ","B","e","r","l","i","n">>, FALSE, "absent"),
      OtherReply(<<"i","t"," ","i","s"," ","r","o","m","e",","," ","s","u","r","e","l","y">>, FALSE, "absent"),
      OtherReply(<<"F","."," ","n","o"," ","i","d","e","a">>, FALSE, "absent") }

ServiceQuestions == { <<>>, <<"C","a","p","i","t","a","l"," ","o","f"," ","G","e","r","m","a","n","y","?">> }

ServiceOptionLists == { <<>>, Capitals, FiveCities, << <<"y","e","s">>, <<"n","o">> >> }

InitService ==
    /\ InitResolverIdle
    /\ InitExtractionIdle
    /\ InitTwiceIdle
    /\ InitBatchIdle
    /\ InitOcrIdle
    /\ InitContentIdle
    /\ InitFuzzyIdle
    /\ InitBlockIdle
    /\ InitCleanIdle
    /\ InitValidateIdle
    /\ sQuestion \in ServiceQuestions
    /\ sOptions \in ServiceOptionLists
    /\ sReply \in Replies
    /\ sPc = "call"
    /\ sOut = NotAnswered

\* answerMCQ, lines 41-55: the guard, then the provider call, which returns the
\* reply or throws (_callOpenAI / _callOllama rethrow every failure)
AnswerMCQ ==
    /\ sPc = "call"
    /\ IF Len(sQuestion) = 0 \/ Len(sOptions) = 0
       THEN sOut' = Threw /\ sPc' = "done"
       ELSE \E failed \in BOOLEAN :
               IF failed
               THEN sOut' = Threw /\ sPc' = "done"
               ELSE sOut' = sOut /\ sPc' = "parse"
    /\ UNCHANGED <<sQuestion, sOptions, sReply>>
    /\ UNCHANGED <<rVars, xVars, tVars, oVars, vVars, bVars, lVars, cVars, fVars, aVars>>

\* answerMCQ, line 57: return this._parseAIResponse(response, options)
ParseAIResponse ==
    /\ sPc = "parse"
    /\ sOut' = parseAIResponse(sReply, sOptions)
    /\ sPc' = "done"
    /\ UNCHANGED <<sQuestion, sOptions, sReply>>
    /\ UNCHANGED <<rVars, xVars, tVars, oVars, vVars, bVars, lVars, cVars, fVars, aVars>>

NextService ==
    \/ AnswerMCQ
    \/ ParseAIResponse

SpecService == InitService /\ [][NextService]_vars

\* C19: every result the service returns for an answer request carries a
\* confidence that is an integer in [0,100].
C19_ConfidenceInRange ==
    sOut.status = "ok" => ~sOut.nan /\ sOut.confidence \in 0..MaxConfidence

(***************************************************************************)
(* Two calls in a row of parse, or of extractAll, on the same input.       *)
(***************************************************************************)
TwiceTexts == {<<>>} \cup UNION {TextsOf(n) : n \in 1..MaxTwiceBlocks}

TwiceDocs == {[host |-> p.host, canvasClass |-> p.canvasClass, nodes |-> ns] :
                 p \in PagePool, ns \in SeqsUpTo(NodePool, MaxTwiceNodes)}

InitTwice ==
    /\ InitResolverIdle
    /\ InitTwiceIdle
    /\ InitBatchIdle
    /\ InitOcrIdle
    /\ InitContentIdle
    /\ InitFuzzyIdle
    /\ InitBlockIdle
    /\ InitCleanIdle
    /\ InitValidateIdle
    /\ InitServiceIdle
    /\ \/ xMode = "parse" /\ xText \in TwiceTexts /\ xDoc = NoDoc /\ xPc = "start"
       \/ xMode = "extract" /\ xText = <<>> /\ xDoc \in TwiceDocs /\ xPc = "strategies"
    /\ xIdx = 1
    /\ xMcqs = <<>>
    /\ xThrew = {}
    /\ xResult = <<>>

\* the caller calls parse(text), or extractAll(), again: the locals of the call
\* (mcqs, the loop position) are new, the input is the same
CallAgain ==
    /\ xMode \in {"parse", "extract"}
    /\ xPc = "done"
    /\ xRun = 1
    /\ xRun' = 2
    /\ xFirst' = [result |-> xResult, threw |-> xThrew]
    /\ xPc' = IF xMode = "parse" THEN "start" ELSE "strategies"
    /\ xIdx' = 1
    /\ xMcqs' = <<>>
    /\ xThrew' = {}
    /\ xResult' = <<>>
    /\ UNCHANGED <<xMode, xText, xDoc>>
    /\ UNCHANGED <<rVars, oVars, vVars, sVars, bVars, lVars, cVars, fVars, aVars>>

NextTwice ==
    \/ ParseStart
    \/ ParseTryStrategy
    \/ ParseReturn
    \/ ExtractTryStrategy
    \/ ExtractReturn
    \/ CallAgain

SpecTwice == InitTwice /\ [][NextTwice]_vars

SecondCallDone == xMode \in {"parse", "extract"} /\ xRun = 2 /\ xPc = "done"

BlockLinePool == {<<"W","h","o","?">>, <<"A","."," ","x">>, <<"B",")"," ","y">>, <<"C",".">>, <<"(","1",")"," ","z">>, <<"n","o","t","e">>}

RECURSIVE JoinLines(_)
JoinLines(ls) ==
    IF ls = <<>> THEN <<>>
    ELSE IF Len(ls) = 1 THEN Head(ls)
    ELSE Head(ls) \o <<"\n">> \o JoinLines(Tail(ls))

NamedBlocks ==
    { <<>>,
      <<"W","h","o","?","\n","\n"," ","A","."," ","x"," ","\n","B",")"," ","y">>,
      <<"W","h","y"," ","s","o","?","\n","A","."," ","a","\n","B","."," ","b","\n","C","."," ","c","\n","D","."," ","d","\n","E","."," ","e","\n","F","."," ","f">>,
      <<"W","h","y"," ","s","o","?","\n","A","."," ","a","\n","B","."," ","b","\n","C","."," ","c","\n","D","."," ","d","\n","E","."," ","e","\n","F","."," ","f","\n","G","."," ","g">> }

Blocks == NamedBlocks \cup {JoinLines(ls) : ls \in SeqsUpTo(BlockLinePool, MaxBlockLines)}

InitBlock ==
    /\ InitResolverIdle
    /\ InitExtractionIdle
    /\ InitTwiceIdle
    /\ InitBatchIdle
    /\ InitOcrIdle
    /\ InitContentIdle
    /\ InitFuzzyIdle
    /\ InitCleanIdle
    /\ InitValidateIdle
    /\ InitServiceIdle
    /\ bBlock \in Blocks
    /\ bOut = NotParsed

ParseQuestionBlock ==
    /\ ~bOut.done
    /\ bOut' = [done |-> TRUE, mcq |-> parseQuestionBlock(bBlock)]
    /\ UNCHANGED bBlock
    /\ UNCHANGED <<rVars, xVars, tVars, oVars, vVars, sVars, lVars, cVars, fVars, aVars>>

NextBlock == ParseQuestionBlock

SpecBlock == InitBlock /\ [][NextBlock]_vars

\* the run of leading lines that do not look like options
RECURSIVE LeadingQuestionLines(_)
LeadingQuestionLines(lines) ==
    IF lines = <<>> \/ looksLikeOption(Head(lines)) THEN <<>>
    ELSE <<Head(lines)>> \o LeadingQuestionLines(Tail(lines))

\* the lines that look like options, each stripped of its prefix, in encounter order
RECURSIVE StrippedOptionLines(_)
StrippedOptionLines(lines) ==
    IF lines = <<>> THEN <<>>
    ELSE IF looksLikeOption(Head(lines))
    THEN <<cleanOption(Head(lines))>> \o StrippedOptionLines(Tail(lines))
    ELSE StrippedOptionLines(Tail(lines))

BlockByRule(block) ==
    LET lines == BlockLines(block)
        question == JoinSpace(LeadingQuestionLines(lines))
        options == StrippedOptionLines(lines)
    IN  IF Len(question) = 0 \/ Len(options) = 0 \/ Len(options) \notin MinOptions..MaxOptions
        THEN NoBlock
        ELSE [ok |-> TRUE, question |-> question, options |-> options]

\* C21: the block parser yields no MCQ when no question text was accumulated,
\* no option line was found or the option count is outside [2,6]; otherwise
\* the MCQ has the space-joined leading non-option lines as its question and
\* the stripped option lines, in encounter order, as its options.
C21_BlockParserRule == bOut.done => bOut.mcq = BlockByRule(bBlock)

BlockByRuleNonEmpty(block) ==
    LET lines == BlockLines(block)
        question == JoinSpace(LeadingQuestionLines(lines))
        options == NonEmpty(StrippedOptionLines(lines))
    IN  IF Len(question) = 0 \/ Len(options) = 0 \/ Len(options) \notin MinOptions..MaxOptions
        THEN NoBlock
        ELSE [ok |-> TRUE, question |-> question, options |-> options]

\* C21 (amended): as C21, with the options being the stripped option lines
\* that are not empty, and the option count taken over those.
C21_BlockParserRuleNonEmpty == bOut.done => bOut.mcq = BlockByRuleNonEmpty(bBlock)

\* C21 witness: an MCQ was returned for a block one of whose option lines is a
\* bare marker.
C21_Witness ==
    /\ bOut.done
    /\ bOut.mcq.ok
    /\ \E i \in DOMAIN BlockLines(bBlock) :
          /\ looksLikeOption(BlockLines(bBlock)[i])
          /\ cleanOption(BlockLines(bBlock)[i]) = <<>>

(***************************************************************************)
(* The fuzzy tier on its own: the loop of findMatchingOption that calls    *)
(* levenshteinDistance for every option and keeps the closest.             *)
(***************************************************************************)
LevAlphabet == {"a", "B"}

LevStrings == SeqsUpTo(LevAlphabet, MaxLevLen)

\* no option, one option, two options (two are enough for a tie)
LevOptionLists ==
    {<<>>} \cup {<<b>> : b \in LevStrings} \cup {<<b, c>> : b \in LevStrings, c \in LevStrings}

InitFuzzy ==
    /\ InitResolverIdle
    /\ InitExtractionIdle
    /\ InitTwiceIdle
    /\ InitBatchIdle
    /\ InitOcrIdle
    /\ InitContentIdle
    /\ InitBlockIdle
    /\ InitCleanIdle
    /\ InitValidateIdle
    /\ InitServiceIdle
    /\ lAnswer \in LevStrings
    /\ lOptions \in LevOptionLists
    /\ lOut = NoFuzzy

\* for (const option of options) { distance = levenshteinDistance(...);
\*   if (distance < bestScore) { bestScore = distance; bestMatch = option } }
FuzzyLoop ==
    /\ ~lOut.done
    /\ lOut' = [done |-> TRUE,
                distance |-> [i \in DOMAIN lOptions |->
                                 levenshteinDistance(cleanText(lAnswer), cleanText(lOptions[i]))],
                best |-> IF Len(lOptions) = 0 THEN 0
                         ELSE BestMatch(lOptions, cleanText(lAnswer))]
    /\ UNCHANGED <<lAnswer, lOptions>>
    /\ UNCHANGED <<rVars, xVars, tVars, oVars, vVars, sVars, bVars, cVars, fVars, aVars>>

NextFuzzy == FuzzyLoop

SpecFuzzy == InitFuzzy /\ [][NextFuzzy]_vars

\* the unit-cost edit distance by its defining recursion
RECURSIVE EditDistance(_, _)
EditDistance(a, b) ==
    IF a = <<>> THEN Len(b)
    ELSE IF b = <<>> THEN Len(a)
    ELSE IF Head(a) = Head(b) THEN EditDistance(Tail(a), Tail(b))
    ELSE 1 + Min3(EditDistance(Tail(a), Tail(b)),
                  EditDistance(a, Tail(b)),
                  EditDistance(Tail(a), b))

\* C22: levenshteinDistance is the unit-cost edit distance (0 iff the strings
\* are equal, symmetric, at most the longer length), and the fuzzy loop
\* selects the earliest option at minimum distance.
C22_EditDistance ==
    lOut.done =>
        LET a == cleanText(lAnswer)
        IN  /\ \A i \in DOMAIN lOptions :
                  LET b == cleanText(lOptions[i])
                  IN  /\ lOut.distance[i] = EditDistance(a, b)
                      /\ (lOut.distance[i] = 0) <=> (a = b)
                      /\ lOut.distance[i] = levenshteinDistance(b, a)
                      /\ lOut.distance[i] <= Max(Len(a), Len(b))
            /\ Len(lOptions) > 0 =>
                  /\ lOut.best \in DOMAIN lOptions
                  /\ \A j \in DOMAIN lOptions :
                        /\ lOut.distance[lOut.best] <= lOut.distance[j]
                        /\ j < lOut.best => lOut.distance[lOut.best] < lOut.distance[j]

\* C22 witness: two different options tie at a minimum distance that needs a
\* substitution, and the first of them was selected.
C22_Witness ==
    /\ lOut.done
    /\ Len(lOptions) = 2
    /\ lOptions[1] # lOptions[2]
    /\ lOut.distance[1] = lOut.distance[2]
    /\ lOut.distance[1] = 2
    /\ Len(lOptions[1]) = Len(lAnswer)
    /\ lOut.best = 1

\* the answer is empty or made of white space only
BlankAnswer == trim(rAnswer) = <<>>

\* C23: for an answer that is empty or only white space the resolver reports
\* no match; no option is returned.
C23_BlankAnswerNoMatch ==
    /\ (rHigh # Pending /\ BlankAnswer) => rHigh = NoMatch
    /\ (rServ # Pending /\ BlankAnswer) => rServ = NoMatch

(***************************************************************************)
(* The content script. A handler call runs from one await to the next      *)
(* without interleaving; between two awaits of one call any other message  *)
(* may be handled. A call is held with its locals: kind, pc ("sleep",      *)
(* "await", "highlightSleep", "done"), i (the index / loop variable), mcq, *)
(* indicator, results, and the response passed to sendResponse. History:   *)
(* started (currentMCQs when the call began) and, in a result, the MCQ it  *)
(* was made for and whether its answer resolves to one of its options.     *)
(* The locals of a call that has returned are gone.                        *)
(***************************************************************************)
NoMcqRef == [gen |-> 0, pos |-> 0, elem |-> FALSE]

NoIndicator == [call |-> 0, i |-> 0]

NoResponse == [type |-> "none", total |-> 0, solved |-> 0, results |-> <<>>]

\* { error: 'Already processing a request' }
BusyResponse == [type |-> "busy", total |-> 0, solved |-> 0, results |-> <<>>]

\* { error: 'No MCQs detected. Please detect MCQs first.' }
EmptyResponse == [type |-> "empty", total |-> 0, solved |-> 0, results |-> <<>>]

\* { success: false, error: error.message }
FailedResponse == [type |-> "failed", total |-> 0, solved |-> 0, results |-> <<>>]

\* { success: true, answer, confidence, explanation }
SolvedResponse == [type |-> "solved", total |-> 0, solved |-> 0, results |-> <<>>]

\* { success: true }
AckResponse == [type |-> "ack", total |-> 0, solved |-> 0, results |-> <<>>]

\* { success: true, count, mcqs }
DetectedResponse(n) == [type |-> "detected", total |-> n, solved |-> 0, results |-> <<>>]

\* { success: true, total: currentMCQs.length, solved: results.filter(r => r.success).length, results }
AllResponse(mcqs, results) ==
    [type |-> "all", total |-> Len(mcqs),
     solved |-> Cardinality({k \in DOMAIN results : results[k].success}),
     results |-> results]

NewCall(kind) ==
    [kind |-> kind, pc |-> "done", i |-> 0, mcq |-> NoMcqRef, indicator |-> NoIndicator,
     results |-> <<>>, response |-> NoResponse, started |-> currentMCQs]

\* the lists extractAll can return on the page as it is at detection g; every
\* strategy of the extractor gives its MCQ a questionElement
DetectedLists(g) ==
    {[p \in 1..n |-> [gen |-> g, pos |-> p, elem |-> TRUE]] : n \in 0..MaxMcqs}

\* faulty variant: the flag is not looked at
AlreadyProcessingNever == FALSE

\* `if (isProcessing) return { error: 'Already processing a request' }`
AlreadyProcessing == isProcessing

\* `let indicator; if (mcq.questionElement) indicator = showProcessingIndicator(...)`
showProcessingIndicator(c, i, mcq) ==
    IF mcq.elem THEN [call |-> c, i |-> i] ELSE NoIndicator

\* `if (indicator) Highlighter.removeProcessingIndicator(indicator)`
removeProcessingIndicator(shown, indicator) == shown \ {indicator}

\* what a step leaves behind: the call, the flag, the indicators, the highlights
After(call, processing, shown, highlighted) ==
    [call |-> call, processing |-> processing, shown |-> shown, highlighted |-> highlighted]

\* `return ...` of solveMCQ / solveAllMCQs inside try, then `finally { isProcessing = false }`
Return(call, response, shown, highlighted) ==
    After([call EXCEPT !.pc = "done", !.response = response, !.i = 0, !.mcq = NoMcqRef,
                       !.indicator = NoIndicator, !.results = <<>>],
          FALSE, shown, highlighted)

\* the head of solveAllMCQs' loop for the next i: the condition on
\* currentMCQs.length, `const mcq = currentMCQs[i]`, the indicator, the sleep
LoopNext(c, call, shown, highlighted) ==
    LET i == call.i + 1
    IN  IF i < Len(currentMCQs)
        THEN LET mcq == currentMCQs[i + 1]
                 ind == showProcessingIndicator(c, i, mcq)
             IN  After([call EXCEPT !.i = i, !.mcq = mcq, !.indicator = ind, !.pc = "sleep"],
                       TRUE, shown \cup ({ind} \ {NoIndicator}), highlighted)
        ELSE Return(call, AllResponse(currentMCQs, call.results), shown, highlighted)

Result(call, success, matches) ==
    [index |-> call.i, success |-> success, mcq |-> call.mcq, matches |-> matches]

\* after the answer is known and highlighted (or not): solveMCQ returns,
\* solveAllMCQs pushes the result and goes on with the loop
Solved(c, call, matches, shown, highlighted) ==
    IF call.kind = "solve" THEN Return(call, SolvedResponse, shown, highlighted)
    ELSE LoopNext(c, [call EXCEPT !.results = Append(@, Result(call, TRUE, matches))],
                  shown, highlighted)

\* Highlighter.clearHighlights
clearHighlights(highlighted) == {}

\* Highlighter.applyHighlight: highlightedElements.push(...)
applyHighlight(highlighted, mcq) == highlighted \cup {mcq}

\* Highlighter.highlight, from its first statement to its last: clearHighlights(),
\* return when findMatchingOption finds no option, applyHighlight otherwise
highlight(highlighted, mcq, matches) ==
    IF matches THEN applyHighlight(clearHighlights(highlighted), mcq)
    ELSE clearHighlights(highlighted)

\* the loop of Highlighter.highlightMultiple over results[k..]
RECURSIVE HighlightEach(_, _, _)
HighlightEach(highlighted, results, k) ==
    IF Cardinality(highlighted) >= 0 /\ k > Len(results) THEN highlighted
    ELSE HighlightEach(highlight(highlighted, results[k].mcq, results[k].matches), results, k + 1)

\* Highlighter.highlightMultiple: clearHighlights(), then highlight for every result
highlightMultiple(highlighted, results) == HighlightEach(clearHighlights(highlighted), results, 1)

\* the part of the handlers that runs when sendMessage settles
AfterResponse(c, outcome) ==
    LET call == calls[c]
        removed == removeProcessingIndicator(indicators, call.indicator)
        matches == outcome = "data"
    IN  IF outcome = "rejected"
        THEN IF call.kind = "solve"
             \* the catch block of solveMCQ
             THEN Return(call, FailedResponse, indicators, highlightedElements)
             \* the inner catch block of solveAllMCQs
             ELSE LoopNext(c, [call EXCEPT !.results = Append(@, Result(call, FALSE, FALSE))],
                           removed, highlightedElements)
        ELSE IF outcome = "error"
        THEN IF call.kind = "solve"
             THEN Return(call, FailedResponse, removed, highlightedElements)
             ELSE LoopNext(c, [call EXCEPT !.results = Append(@, Result(call, FALSE, FALSE))],
                           removed, highlightedElements)
        ELSE IF ~settings.autoHighlight
        THEN Solved(c, call, matches, removed, highlightedElements)
        \* Highlighter.highlight, with its stealth delay before applyHighlight
        ELSE IF matches /\ settings.stealthMode
        THEN After([call EXCEPT !.pc = "highlightSleep"], TRUE, removed,
                   clearHighlights(highlightedElements))
        ELSE Solved(c, call, matches, removed, highlight(highlightedElements, call.mcq, matches))

Apply(c, after) ==
    /\ calls' = [calls EXCEPT ![c] = after.call]
    /\ isProcessing' = after.processing
    /\ indicators' = after.shown
    /\ highlightedElements' = after.highlighted

Start(after) ==
    /\ calls' = Append(calls, after.call)
    /\ isProcessing' = after.processing
    /\ indicators' = after.shown
    /\ highlightedElements' = after.highlighted

InitContent ==
    /\ InitResolverIdle
    /\ InitExtractionIdle
    /\ InitTwiceIdle
    /\ InitBatchIdle
    /\ InitOcrIdle
    /\ InitBlockIdle
    /\ InitFuzzyIdle
    /\ InitCleanIdle
    /\ InitValidateIdle
    /\ InitServiceIdle
    /\ currentMCQs = <<>>
    /\ isProcessing = FALSE
    /\ settings \in [stealthMode : BOOLEAN, autoHighlight : BOOLEAN]
    /\ calls = <<>>
    /\ indicators = {}
    /\ highlightedElements = {}
    /\ detections = 0

\* message { action: 'detectMCQs' }: detectMCQs up to its first await, or to its end
DetectMCQs ==
    /\ Len(calls) < MaxRequests
    /\ IF settings.stealthMode
       THEN /\ calls' = Append(calls, [NewCall("detect") EXCEPT !.pc = "sleep"])
            /\ UNCHANGED <<currentMCQs, detections>>
       ELSE /\ detections' = detections + 1
            /\ currentMCQs' \in DetectedLists(detections')
            /\ calls' = Append(calls, [NewCall("detect") EXCEPT
                                          !.response = DetectedResponse(Len(currentMCQs'))])
    /\ UNCHANGED <<isProcessing, settings, indicators, highlightedElements>>
    /\ UNCHANGED <<rVars, xVars, tVars, oVars, vVars, sVars, bVars, lVars, fVars, aVars>>

\* detectMCQs after its stealth delay
DetectAfterDelay ==
    /\ \E c \in DOMAIN calls :
          /\ calls[c].kind = "detect"
          /\ calls[c].pc = "sleep"
          /\ detections' = detections + 1
          /\ currentMCQs' \in DetectedLists(detections')
          /\ calls' = [calls EXCEPT ![c].pc = "done",
                                    ![c].response = DetectedResponse(Len(currentMCQs'))]
    /\ UNCHANGED <<isProcessing, settings, indicators, highlightedElements>>
    /\ UNCHANGED <<rVars, xVars, tVars, oVars, vVars, sVars, bVars, lVars, fVars, aVars>>

\* message { action: 'solveMCQ', data: { index } }: solveMCQ up to its first await
SolveMCQ ==
    /\ Len(calls) < MaxRequests
    /\ \E index \in (0 - 1)..MaxMcqs :
          LET c == Len(calls) + 1
              call == NewCall("solve")
          IN  IF AlreadyProcessing
              THEN Start(After([call EXCEPT !.response = BusyResponse],
                               isProcessing, indicators, highlightedElements))
              ELSE IF index < 0 \/ index >= Len(currentMCQs)
              THEN Start(Return(call, FailedResponse, indicators, highlightedElements))
              ELSE LET mcq == currentMCQs[index + 1]
                       ind == showProcessingIndicator(c, index, mcq)
                   IN  Start(After([call EXCEPT !.i = index, !.mcq = mcq, !.indicator = ind,
                                                !.pc = IF settings.stealthMode
                                                       THEN "sleep" ELSE "await"],
                                   TRUE, indicators \cup ({ind} \ {NoIndicator}),
                                   highlightedElements))
    /\ UNCHANGED <<currentMCQs, settings, detections>>
    /\ UNCHANGED <<rVars, xVars, tVars, oVars, vVars, sVars, bVars, lVars, fVars, aVars>>

\* message { action: 'solveAll' }: solveAllMCQs up to its first await
SolveAllMCQs ==
    /\ Len(calls) < MaxRequests
    /\ LET c == Len(calls) + 1
           call == NewCall("solveAll")
       IN  IF AlreadyProcessing
           THEN Start(After([call EXCEPT !.response = BusyResponse],
                            isProcessing, indicators, highlightedElements))
           ELSE IF Len(currentMCQs) = 0
           THEN Start(After([call EXCEPT !.response = EmptyResponse],
                            isProcessing, indicators, highlightedElements))
           ELSE LET mcq == currentMCQs[1]
                    ind == showProcessingIndicator(c, 0, mcq)
                IN  Start(After([call EXCEPT !.mcq = mcq, !.indicator = ind, !.pc = "await"],
                                TRUE, indicators \cup ({ind} \ {NoIndicator}),
                                highlightedElements))
    /\ UNCHANGED <<currentMCQs, settings, detections>>
    /\ UNCHANGED <<rVars, xVars, tVars, oVars, vVars, sVars, bVars, lVars, fVars, aVars>>

\* the delay before the request ends: chrome.runtime.sendMessage is called
SendAfterDelay ==
    /\ \E c \in DOMAIN calls :
          /\ calls[c].kind \in {"solve", "solveAll"}
          /\ calls[c].pc = "sleep"
          /\ calls' = [calls EXCEPT ![c].pc = "await"]
    /\ UNCHANGED <<currentMCQs, isProcessing, settings, indicators, highlightedElements, detections>>
    /\ UNCHANGED <<rVars, xVars, tVars, oVars, vVars, sVars, bVars, lVars, fVars, aVars>>

\* sendMessage settles: with data whose answer resolves to an option ("data")
\* or to none ("nodata"), with { error }, or by rejecting
ResponseArrives ==
    /\ \E c \in DOMAIN calls :
          /\ calls[c].pc = "await"
          /\ \E outcome \in {"data", "nodata", "error", "rejected"} :
                Apply(c, AfterResponse(c, outcome))
    /\ UNCHANGED <<currentMCQs, settings, detections>>
    /\ UNCHANGED <<rVars, xVars, tVars, oVars, vVars, sVars, bVars, lVars, fVars, aVars>>

\* Highlighter.highlight after its stealth delay: applyHighlight and the rest
HighlightAfterDelay ==
    /\ \E c \in DOMAIN calls :
          /\ calls[c].pc = "highlightSleep"
          /\ Apply(c, Solved(c, calls[c], TRUE, indicators,
                             applyHighlight(highlightedElements, calls[c].mcq)))
    /\ UNCHANGED <<currentMCQs, settings, detections>>
    /\ UNCHANGED <<rVars, xVars, tVars, oVars, vVars, sVars, bVars, lVars, fVars, aVars>>

\* message { action: 'clearHighlights' }
ClearHighlights ==
    /\ Len(calls) < MaxRequests
    /\ highlightedElements' = clearHighlights(highlightedElements)
    /\ calls' = Append(calls, [NewCall("clear") EXCEPT !.response = AckResponse])
    /\ UNCHANGED <<currentMCQs, isProcessing, settings, indicators, detections>>
    /\ UNCHANGED <<rVars, xVars, tVars, oVars, vVars, sVars, bVars, lVars, fVars, aVars>>

\* message { action: 'updateSettings', data }
UpdateSettings ==
    /\ Len(calls) < MaxRequests
    /\ \E data \in [stealthMode : BOOLEAN, autoHighlight : BOOLEAN] :
          /\ data # settings
          /\ settings' = data
    /\ calls' = Append(calls, [NewCall("update") EXCEPT !.response = AckResponse])
    /\ UNCHANGED <<currentMCQs, isProcessing, indicators, highlightedElements, detections>>
    /\ UNCHANGED <<rVars, xVars, tVars, oVars, vVars, sVars, bVars, lVars, fVars, aVars>>

NextContent ==
    \/ DetectMCQs
    \/ DetectAfterDelay
    \/ SolveMCQ
    \/ SolveAllMCQs
    \/ SendAfterDelay
    \/ ResponseArrives
    \/ HighlightAfterDelay
    \/ ClearHighlights
    \/ UpdateSettings

SpecContent == InitContent /\ [][NextContent]_vars

\* call c is a solve operation that has begun and not yet returned
SolveInProgress(c) == calls[c].kind \in {"solve", "solveAll"} /\ calls[c].pc # "done"

\* C24: isProcessing is true exactly while a solve operation is in progress,
\* at most one is in progress at a time, and a request answered with
\* 'Already processing a request' has started no work.
C24_OneSolveAtATime ==
    /\ isProcessing <=> (\E c \in DOMAIN calls : SolveInProgress(c))
    /\ \A c \in DOMAIN calls : \A d \in DOMAIN calls :
          (SolveInProgress(c) /\ SolveInProgress(d)) => c = d
    /\ \A c \in DOMAIN calls :
          calls[c].response = BusyResponse =>
              /\ calls[c].pc = "done"
              /\ \A ind \in indicators : ind.call # c

\* C24 witness: a solve request was answered 'Already processing a request'
\* while the solve operation before it is still in progress, the flag set.
C24_Witness ==
    /\ isProcessing
    /\ \E c \in DOMAIN calls : \E d \in DOMAIN calls :
          /\ c < d
          /\ SolveInProgress(c)
          /\ calls[d].kind \in {"solve", "solveAll"}
          /\ calls[d].response = BusyResponse

\* C25: the response of solveAllMCQs reports on the MCQ list that was current
\* when it started: one result per MCQ of that list, index equal to the MCQ's
\* position, results.length = total and solved <= total, also when detectMCQs
\* replaced the list while solveAllMCQs was suspended.
C25_ReportsOnStartedList ==
    \A c \in DOMAIN calls :
        (calls[c].kind = "solveAll" /\ calls[c].response.type = "all") =>
            LET r == calls[c].response
            IN  /\ r.total = Len(calls[c].started)
                /\ Len(r.results) = r.total
                /\ r.solved <= r.total
                /\ \A k \in DOMAIN r.results :
                      /\ r.results[k].index = k - 1
                      /\ k <= Len(calls[c].started)
                      /\ r.results[k].mcq = calls[c].started[k]

\* C30: when the solve attempt for an MCQ has finished (solveMCQ has returned;
\* solveAllMCQs has pushed the MCQ's result), the processing indicator shown
\* for that MCQ is no longer on the page, whether the send was answered with
\* data, answered with an error, or rejected.
C30_IndicatorsRemoved ==
    \A c \in DOMAIN calls : \A ind \in indicators :
        ind.call = c =>
            /\ calls[c].pc # "done"
            /\ ind.i = calls[c].i

\* call c is a Solve All run that completed with auto-highlight on and with
\* no message handled since that could take a highlight away or switch
\* highlighting off
UndisturbedSolveAll(c) ==
    /\ calls[c].kind = "solveAll"
    /\ calls[c].response.type = "all"
    /\ settings.autoHighlight
    /\ \A d \in DOMAIN calls :
          d # c => \/ calls[d].kind = "detect"
                   \/ calls[d].response = BusyResponse
                   \/ d < c /\ calls[d].kind = "update"

\* C26: after a Solve All run with auto-highlight, the matching option of
\* every successfully solved MCQ is highlighted; highlighting a later answer
\* does not remove an earlier one, and the same holds for highlightMultiple.
C26_AllSolvedHighlighted ==
    \A c \in DOMAIN calls :
        UndisturbedSolveAll(c) =>
            \A k \in DOMAIN calls[c].response.results :
                LET r == calls[c].response.results[k]
                IN  (r.success /\ r.matches) =>
                        /\ r.mcq \in highlightedElements
                        /\ r.mcq \in highlightMultiple({}, calls[c].response.results)

(***************************************************************************)
(* The OCR routes of the backend: POST /api/ocr and POST /api/ocr/parse.   *)
(* One request is followed from the upload middleware to its response.     *)
(* fStored tells whether the file multer wrote is in the temp directory.   *)
(***************************************************************************)
\* a character outside \x20-\x7E that is not white space (the copyright sign)
ArtifactChars == {"U+00A9"}

\* \w of a JavaScript regular expression
IsWordChar(c) == IsLetter(c) \/ IsDigit(c) \/ c = "_"

\* the shortest run of newlines /\n{3,}/ matches
NewlineRunMin == 3

\* .replace(/\n{3,}/g, '\n\n')
RECURSIVE SqueezeNewlines(_, _)
SqueezeNewlines(s, i) ==
    IF i > Len(s) THEN <<>>
    ELSE IF s[i] = "\n"
    THEN LET n == RunLen(s, i, {"\n"})
         IN  (IF n >= NewlineRunMin THEN <<"\n", "\n">> ELSE SubSeq(s, i, i + n - 1))
             \o SqueezeNewlines(s, i + n)
    ELSE <<s[i]>> \o SqueezeNewlines(s, i + 1)

\* .replace(/\bl\b/g, '1') and .replace(/\bO\b/g, '0'): a character standing
\* between two word boundaries
ReplaceIsolated(s, from, to) ==
    [i \in 1..Len(s) |->
        IF /\ s[i] = from
           /\ (i = 1 \/ ~IsWordChar(s[i - 1]))
           /\ (i = Len(s) \/ ~IsWordChar(s[i + 1]))
        THEN to ELSE s[i]]

\* .replace(/[^\x20-\x7E\n]/g, '')
RECURSIVE StripArtifacts(_)
StripArtifacts(s) ==
    IF s = <<>> THEN <<>>
    ELSE (IF Head(s) \in ArtifactChars \cup {"\t"} THEN <<>> ELSE <<Head(s)>>)
         \o StripArtifacts(Tail(s))

\* OCRService.cleanText
OCRService_cleanText(text) ==
    IF text = <<>> THEN <<>>
    ELSE trim(StripArtifacts(ReplaceIsolated(ReplaceIsolated(
             SqueezeNewlines(CollapseSpaces(text, 1), 1), "l", "1"), "O", "0")))

\* MCQParser.parse when no strategy throws
parse(text) ==
    IF IsBlankText(text) THEN <<>>
    ELSE deduplicate(parseNumberedQuestions(text) \o parseQPrefixedQuestions(text)
                         \o parseBlockQuestions(text))

\* ALLOWED_FILE_TYPES.image and ALLOWED_FILE_TYPES.pdf
AllowedImageTypes == {"image/jpeg", "image/png", "image/webp", "image/gif"}

AllowedPdfTypes == {"application/pdf"}

\* allowedTypes of validateOCRRequest
ValidatorAllowedTypes ==
    {"image/jpeg", "image/png", "image/webp", "image/gif", "application/pdf"}

MimeTypes == AllowedImageTypes \cup AllowedPdfTypes \cup {"text/plain"}

\* the file fields a request can carry
Uploads ==
    {NoUpload} \cup [present : {TRUE}, mimetype : MimeTypes, large : BOOLEAN]

\* the texts Tesseract or pdf-parse can yield
OcrTexts ==
    BlockPool \cup
    { <<>>,
      <<"I","s"," ","l"," ","o","r"," ","O","?","\n","\n","\n","\n","A","."," ","l","\n","B","."," ","O"," ">> \o <<"U+00A9">>,
      <<"P","i","c","k"," ","o","n","e",":","\n"," "," ","a",")"," ","s","o","\t","s","o","\n"," "," ","b",")"," ","n","o">> }

OcrResponse(status, text, mcqs) == [status |-> status, text |-> text, mcqs |-> mcqs]

InitOcr ==
    /\ InitResolverIdle
    /\ InitExtractionIdle
    /\ InitTwiceIdle
    /\ InitBatchIdle
    /\ InitBlockIdle
    /\ InitFuzzyIdle
    /\ InitContentIdle
    /\ InitCleanIdle
    /\ InitValidateIdle
    /\ InitServiceIdle
    /\ fRoute \in {"ocr", "parse"}
    /\ fFile \in Uploads
    /\ fStored = FALSE
    /\ fPc = "upload"
    /\ fText = <<>>
    /\ fOut = NoOcrResponse

\* upload.single('file'): multer with the disk storage, the size limit and
\* the file filter of the route; its errors go to the global error handler
Upload ==
    /\ fPc = "upload"
    /\ IF ~fFile.present
       THEN fPc' = "validate" /\ UNCHANGED <<fStored, fOut>>
       ELSE IF fFile.mimetype \notin AllowedImageTypes \cup AllowedPdfTypes
       THEN /\ fPc' = "done"
            /\ fOut' = OcrResponse(500, <<>>, <<>>)
            /\ UNCHANGED fStored
       ELSE IF fFile.large
       THEN /\ fPc' = "done"
            /\ fOut' = OcrResponse(400, <<>>, <<>>)
            /\ UNCHANGED fStored
       ELSE /\ fPc' = "validate"
            /\ fStored' = TRUE
            /\ UNCHANGED fOut
    /\ UNCHANGED <<fRoute, fFile, fText>>
    /\ UNCHANGED <<rVars, xVars, tVars, oVars, vVars, sVars, bVars, lVars, cVars, aVars>>

\* validateOCRRequest
ValidateOCRRequest ==
    /\ fPc = "validate"
    /\ IF \/ ~fFile.present
          \/ fFile.mimetype \notin ValidatorAllowedTypes
          \/ fFile.large
       THEN fPc' = "done" /\ fOut' = OcrResponse(400, <<>>, <<>>)
       ELSE fPc' = "extract" /\ UNCHANGED fOut
    /\ UNCHANGED <<fRoute, fFile, fStored, fText>>
    /\ UNCHANGED <<rVars, xVars, tVars, oVars, vVars, sVars, bVars, lVars, cVars, aVars>>

\* ocrService.extractText(file) settles: Tesseract.recognize or pdf-parse has
\* yielded a text and the file is unlinked, or the extraction has thrown and
\* the catch block of the route answers
ExtractText ==
    /\ fPc = "extract"
    /\ \/ \E text \in OcrTexts :
             /\ fText' = text
             /\ fStored' = FALSE
             /\ fPc' = "respond"
             /\ UNCHANGED fOut
       \/ /\ fPc' = "done"
          /\ fOut' = OcrResponse(500, <<>>, <<>>)
          /\ UNCHANGED <<fText, fStored>>
    /\ UNCHANGED <<fRoute, fFile>>
    /\ UNCHANGED <<rVars, xVars, tVars, oVars, vVars, sVars, bVars, lVars, cVars, aVars>>

\* the rest of the try block of the two routes
Respond ==
    /\ fPc = "respond"
    /\ LET cleanedText == OCRService_cleanText(fText)
       IN  fOut' = OcrResponse(200, cleanedText,
                               IF fRoute = "parse" THEN parse(cleanedText) ELSE <<>>)
    /\ fPc' = "done"
    /\ UNCHANGED <<fRoute, fFile, fStored, fText>>
    /\ UNCHANGED <<rVars, xVars, tVars, oVars, vVars, sVars, bVars, lVars, cVars, aVars>>

NextOcr == Upload \/ ValidateOCRRequest \/ ExtractText \/ Respond

SpecOcr == InitOcr /\ [][NextOcr]_vars

\* some line of the text that is no option line is followed by 2 to 6 option
\* lines, each on a line of its own
HasWellFormedBlock(text) ==
    LET lines == TrimAll(SplitOn(text, "\n", 1))
    IN  \E q \in DOMAIN lines : \E n \in MinOptions..MaxOptions :
           /\ q + n <= Len(lines)
           /\ Len(lines[q]) > 0
           /\ ~looksLikeOption(lines[q])
           /\ \A k \in (q + 1)..(q + n) : looksLikeOption(lines[k])
           /\ (q + n = Len(lines) \/ ~looksLikeOption(lines[q + n + 1]))

\* C27: when /api/ocr/parse has answered 200 for an extracted text that holds a
\* well-formed block, the MCQs of the response are the MCQs parse finds in the
\* extracted text, and there is at least one.
C27_CleaningKeepsBlocks ==
    (fRoute = "parse" /\ fPc = "done" /\ fOut.status = 200 /\ HasWellFormedBlock(fText))
        => /\ fOut.mcqs = parse(fText)
           /\ Len(fOut.mcqs) >= 1

\* C29: once the request has been answered, the uploaded file is no longer in
\* the temp directory.
C29_UploadDeleted == fPc = "done" => ~fStored

(***************************************************************************)
(* The batch route of the backend: POST /api/answer/batch.                 *)
(* An entry of the batch is described by what the route and answerMCQ ask  *)
(* of it: whether it is null or undefined, and whether its question and    *)
(* its options pass the test at the start of answerMCQ.                    *)
(***************************************************************************)
MaxBatchLen == 3

\* `questions.length > 20`
MaxBatchSize == 20

EntryKinds == {"null", "noQuestion", "noOptions", "emptyOptions", "valid"}

RECURSIVE Repeat(_, _)
Repeat(e, n) == IF n = 0 THEN <<>> ELSE <<e>> \o Repeat(e, n - 1)

\* the values of req.body.questions: no array, the short batches, a batch
\* of the largest size and one above it
BatchInputs ==
    {NoQuestions}
    \cup [isArray : {TRUE}, entries : SeqsUpTo(EntryKinds, MaxBatchLen)]
    \cup {[isArray |-> TRUE, entries |-> Repeat("noQuestion", MaxBatchSize - 1) \o <<last>>] :
              last \in {"valid", "null"}}
    \cup {[isArray |-> TRUE, entries |-> Repeat("noQuestion", MaxBatchSize + 1)]}

BatchResponse(status, total, successful, results) ==
    [status |-> status, total |-> total, successful |-> successful,
     failed |-> total - successful, results |-> results]

\* results.filter(r => r.success).length
successCount(results) == Cardinality({k \in DOMAIN results : results[k].success})

\* `const { question, options } = questions[i]` throws a TypeError
DestructuringThrows(entry) == entry = "null"

\* `!question || !options || options.length === 0` of answerMCQ
InvalidQuestionOrOptions(entry) == entry \in {"noQuestion", "noOptions", "emptyOptions"}

InitBatch ==
    /\ InitResolverIdle
    /\ InitExtractionIdle
    /\ InitTwiceIdle
    /\ InitBlockIdle
    /\ InitFuzzyIdle
    /\ InitContentIdle
    /\ InitCleanIdle
    /\ InitValidateIdle
    /\ InitServiceIdle
    /\ InitOcrIdle
    /\ aQuestions \in BatchInputs
    /\ aPc = "start"
    /\ aI = 0
    /\ aResults = <<>>
    /\ aCalls = 0
    /\ aOut = NoBatchResponse

\* the three tests on `questions` before the loop
BatchStart ==
    /\ aPc = "start"
    /\ IF \/ ~aQuestions.isArray
          \/ Len(aQuestions.entries) = 0
          \/ Len(aQuestions.entries) > MaxBatchSize
       THEN aPc' = "done" /\ aOut' = BatchResponse(400, 0, 0, <<>>)
       ELSE aPc' = "loop" /\ UNCHANGED aOut
    /\ UNCHANGED <<aQuestions, aI, aResults, aCalls>>
    /\ UNCHANGED <<rVars, xVars, tVars, oVars, vVars, sVars, bVars, lVars, cVars, fVars>>

\* one iteration of the loop: the entry is destructured, answerMCQ settles
\* and its result or its error is pushed; a throw of the destructuring
\* goes to the catch block of the route
BatchEntry ==
    /\ aPc = "loop"
    /\ aI < Len(aQuestions.entries)
    /\ LET entry == aQuestions.entries[aI + 1]
       IN  IF DestructuringThrows(entry)
           THEN /\ aPc' = "done"
                /\ aOut' = BatchResponse(500, 0, 0, <<>>)
                /\ UNCHANGED <<aI, aResults, aCalls>>
           ELSE IF InvalidQuestionOrOptions(entry)
           THEN /\ aResults' = Append(aResults, [index |-> aI, success |-> FALSE])
                /\ aI' = aI + 1
                /\ UNCHANGED <<aPc, aCalls, aOut>>
           ELSE \E success \in BOOLEAN :
                /\ aResults' = Append(aResults, [index |-> aI, success |-> success])
                /\ aCalls' = aCalls + 1
                /\ aI' = aI + 1
                /\ UNCHANGED <<aPc, aOut>>
    /\ UNCHANGED aQuestions
    /\ UNCHANGED <<rVars, xVars, tVars, oVars, vVars, sVars, bVars, lVars, cVars, fVars>>

\* the response after the loop
BatchRespond ==
    /\ aPc = "loop"
    /\ aI >= Len(aQuestions.entries)
    /\ aOut' = BatchResponse(200, Len(aQuestions.entries), successCount(aResults), aResults)
    /\ aPc' = "done"
    /\ UNCHANGED <<aQuestions, aI, aResults, aCalls>>
    /\ UNCHANGED <<rVars, xVars, tVars, oVars, vVars, sVars, bVars, lVars, cVars, fVars>>

NextBatch == BatchStart \/ BatchEntry \/ BatchRespond

SpecBatch == InitBatch /\ [][NextBatch]_vars

\* the batch is an array of 1 to 20 entries
BatchAccepted ==
    /\ aQuestions.isArray
    /\ Len(aQuestions.entries) \in 1..MaxBatchSize

\* the response reports on every entry of the batch
BatchReport ==
    /\ aOut.status = 200
    /\ aOut.total = Len(aQuestions.entries)
    /\ Len(aOut.results) = aOut.total
    /\ \A k \in DOMAIN aOut.results : aOut.results[k].index = k - 1
    /\ aOut.successful + aOut.failed = aOut.total
    /\ aOut.successful = successCount(aOut.results)
    /\ \A k \in DOMAIN aOut.results :
          aQuestions.entries[k] # "valid" => ~aOut.results[k].success

\* C28: when the batch route has answered, a batch of 1 to 20 entries got a
\* 200 response with one result per entry, in order, with successful + failed
\* = total and every malformed entry recorded as failed; any other batch got
\* a 400 response and no call to the AI was made.
C28_BatchReportsEveryEntry ==
    aPc = "done" =>
        IF BatchAccepted THEN BatchReport
        ELSE aOut.status = 400 /\ aCalls = 0

====
